---- MODULE Spec2Model ----
(***************************************************************************)
(* My Spectrum: the Share Codec (components/ShareModal.tsx, lib/sharing.ts *)
(* and App.tsx), the Recommendation Engine (lib/recommendations.ts), the   *)
(* score classifiers (lib/metrics.ts) and the App component with its modes *)
(* (App.tsx, components/MetricSlider.tsx, components/ViewingMode.tsx), the *)
(* CSV report (lib/sharing.ts) and the encrypted log store (lib/db.ts).    *)
(*                                                                         *)
(* Representation.  A JavaScript string that the code inspects character   *)
(* by character (a query string, a parameter value, a display name) is the *)
(* sequence of its UTF-16 code units: a printable ASCII character is a     *)
(* string of that one character, any other code unit is named by its four  *)
(* hexadecimal digits ("U+0009", "U+00E9", "U+D83D").  A JavaScript object *)
(* is the sequence of its entries <<key, value>> in property order, which  *)
(* is the order Object.entries and the spread operator see.                *)
(***************************************************************************)
EXTENDS Integers, Sequences, FiniteSets, TLC

VARIABLES
    scenario,         \* which entry point this run exercises
    metrics,          \* the profile handed to the code (entries in key order)
    shareName,        \* the name typed into the share form, or Undefined
    shareUrl,         \* result of generateShareUrl, or Null before it ran
    search,           \* the query string handed to the decoders, or Null
    parsed,           \* result of lib/sharing.ts parseUrlMetrics, or Unset
    appParsed,        \* result of App.tsx parseUrlMetrics, or Unset
    strategies,       \* the strategy table the engine reads
    recommendations,  \* result of generateRecommendations, or Unset
    isReady,          \* App state: initialization has finished
    isViewingMode,    \* App state: a shared profile is being viewed
    sharedName,       \* App state: the name of the shared URL, or Null
    currentView,      \* App state: "edit" or "share"
    legalPage,        \* App state: "privacy", "terms" or Null
    showPlaintext,    \* App state: the plain-text view is open
    viewing,          \* state of the ViewingMode component
    effectPending,    \* the recommendations effect is scheduled and has not run
    events,           \* user events handled so far
    givenScore,       \* the score handed to the classifiers
    classified,       \* what each classifier returned for it
    givenValue,       \* the number handed to isValidMetricScore
    valid,            \* what isValidMetricScore returned, or Unset
    shown,            \* what is rendered of a shared name or a strategy list, or Unset
    csvInput,         \* settingsData and the resource lists handed to the CSV export
    csv,              \* the rows generateCSVContent joined, or Unset
    installKey,       \* IndexedDB 'meta' store: the value under 'installKey', or Undefined
    logs,             \* IndexedDB 'logs' store: the records added, in order
    saves,            \* the calls of saveMetricEncrypted: position and locals of each
    requests,         \* what the calls wait for and has not happened yet, in order
    keysGenerated,    \* installation keys generated so far
    reads,            \* the calls of getAllLogs: position and locals of each
    db,               \* lib/db.ts db: "open", or Null before openDB has resolved
    sodium,           \* the promise sodium.ready: "loading", "ready" or "failed"
    sodiumReady       \* lib/encryption _sodiumReady

codecVars == <<scenario, metrics, shareName, shareUrl, search, parsed, appParsed,
               strategies, recommendations>>
appVars == <<isReady, isViewingMode, sharedName, currentView, legalPage,
             showPlaintext, viewing, effectPending, events>>
classVars == <<givenScore, classified, givenValue, valid>>

exportVars == <<shown, csvInput, csv>>
dbVars == <<installKey, logs, saves, requests, keysGenerated, reads, db, sodium,
           sodiumReady>>

vars == <<codecVars, appVars, classVars, exportVars, dbVars>>

\* null and undefined where the other values are strings or objects in key
\* order.  A string of the program is a sequence of code units, each a
\* printable ASCII character or a name ("U+000A" is the line feed), so no
\* string of the program holds the "\n" these two end with: they differ from
\* every string, the strings "null" and "undefined" included.
Null == "null\n"
Undefined == "undefined\n"

\* A JavaScript number: an integer n, or NaN.
Number(n) == [kind |-> "number", value |-> n]
NaN == [kind |-> "NaN"]

\* The other numbers: num/den with den > 1 in lowest terms (not an integer),
\* Infinity and -Infinity.
Fraction(num, den) == [kind |-> "fraction", num |-> num, den |-> den]
Infinity == [kind |-> "Infinity"]
NegInfinity == [kind |-> "-Infinity"]

\* Number.isInteger(v)
NumberIsInteger(v) == v.kind = "number"

\* v >= n and v <= n for an integer n: false when v is NaN.
NumGE(v, n) ==
    CASE v.kind = "number" -> v.value >= n
      [] v.kind = "fraction" -> v.num >= n * v.den
      [] v.kind = "Infinity" -> TRUE
      [] v.kind = "-Infinity" -> FALSE
      [] v.kind = "NaN" -> FALSE

NumLE(v, n) ==
    CASE v.kind = "number" -> v.value <= n
      [] v.kind = "fraction" -> v.num <= n * v.den
      [] v.kind = "Infinity" -> FALSE
      [] v.kind = "-Infinity" -> TRUE
      [] v.kind = "NaN" -> FALSE

\* A function that returned null where it otherwise returns a record, and a
\* variable whose function has not run yet.
NullResult == [kind |-> "null"]
Unset == [kind |-> "unset"]

(***************************************************************************)
(* Characters and strings                                                  *)
(***************************************************************************)

\* Printable ASCII, code points 32..126, in code order ("grave" stands for
\* the grave accent, code point 96).
Ascii ==
   << " ", "!", "\"", "#", "$", "%", "&", "'", "(", ")", "*", "+", ",", "-", ".", "/",
      "0", "1", "2", "3", "4", "5", "6", "7", "8", "9", ":", ";", "<", "=", ">", "?",
      "@", "A", "B", "C", "D", "E", "F", "G", "H", "I", "J", "K", "L", "M", "N", "O",
      "P", "Q", "R", "S", "T", "U", "V", "W", "X", "Y", "Z", "[", "\\", "]", "^", "_",
      "grave", "a", "b", "c", "d", "e", "f", "g", "h", "i", "j", "k", "l", "m", "n", "o",
      "p", "q", "r", "s", "t", "u", "v", "w", "x", "y", "z", "{", "|", "}", "~" >>

AsciiSet == {Ascii[i] : i \in 1..Len(Ascii)}
CharCodeOf == [c \in AsciiSet |-> 31 + (CHOOSE i \in 1..Len(Ascii) : Ascii[i] = c)]
CharCode(c) == CharCodeOf[c]
CharOfCode(n) == Ascii[n - 31]
IsAsciiCode(n) == n >= 32 /\ n <= 126
IsAscii(c) == c \in AsciiSet

HexDigits == <<"0", "1", "2", "3", "4", "5", "6", "7", "8", "9",
               "A", "B", "C", "D", "E", "F">>
LowerHexDigits == <<"0", "1", "2", "3", "4", "5", "6", "7", "8", "9",
                    "a", "b", "c", "d", "e", "f">>
HexDigitSet == {HexDigits[i] : i \in 1..16} \cup {LowerHexDigits[i] : i \in 1..16}
HexValueOf ==
    [c \in HexDigitSet |->
        (CHOOSE i \in 1..16 : HexDigits[i] = c \/ LowerHexDigits[i] = c) - 1]
IsHexDigit(c) == c \in HexDigitSet
HexValue(c) == HexValueOf[c]

DigitSet == {HexDigits[i] : i \in 1..10}
IsDigit(c) == c \in DigitSet
DigitValue(c) == HexValueOf[c]

\* The name of a code unit outside printable ASCII: "U+" and its four
\* hexadecimal digits.
CodeUnitName(n) ==
    "U+" \o HexDigits[(n \div 4096) + 1] \o HexDigits[((n \div 256) % 16) + 1]
         \o HexDigits[((n \div 16) % 16) + 1] \o HexDigits[(n % 16) + 1]

\* String.fromCharCode(n) and c.charCodeAt(0), for the code units 0..65535.
CharOfCodeUnit(n) == IF IsAsciiCode(n) THEN CharOfCode(n) ELSE CodeUnitName(n)
CodeUnit(c) ==
    IF IsAscii(c) THEN CharCode(c)
    ELSE 4096 * HexValueOf[SubSeq(c, 3, 3)] + 256 * HexValueOf[SubSeq(c, 4, 4)]
             + 16 * HexValueOf[SubSeq(c, 5, 5)] + HexValueOf[SubSeq(c, 6, 6)]

\* The two halves of a character over U+FFFF.
IsHighSurrogate(n) == n >= 55296 /\ n <= 56319
IsLowSurrogate(n) == n >= 56320 /\ n <= 57343

\* U+FFFD, which the encoder and the decoder put in place of what is not
\* well-formed.
ReplacementChar == CodeUnitName(65533)

\* The UTF-16 code units of a code point: two surrogates over U+FFFF.
CharsOfCodePoint(cp) ==
    IF cp >= 65536
    THEN <<CharOfCodeUnit(55296 + ((cp - 65536) \div 1024)),
           CharOfCodeUnit(56320 + ((cp - 65536) % 1024))>>
    ELSE <<CharOfCodeUnit(cp)>>

\* The white space of String.prototype.trim and parseInt, WhiteSpace and
\* LineTerminator of ECMAScript: U+0009 to U+000D, the space, U+00A0, U+1680,
\* U+2000 to U+200A, U+2028, U+2029, U+202F, U+205F, U+3000 and U+FEFF.
WhiteSpaceCodeUnits ==
    (9..13) \cup {32, 160, 5760} \cup (8192..8202)
        \cup {8232, 8233, 8239, 8287, 12288, 65279}
WhiteSpace == {CharOfCodeUnit(n) : n \in WhiteSpaceCodeUnits}

RECURSIVE TrimStart(_)
TrimStart(s) ==
    IF s # <<>> /\ Head(s) \in WhiteSpace THEN TrimStart(Tail(s)) ELSE s

RECURSIVE TrimEnd(_)
TrimEnd(s) ==
    IF s # <<>> /\ s[Len(s)] \in WhiteSpace
    THEN TrimEnd(SubSeq(s, 1, Len(s) - 1))
    ELSE s

\* String.prototype.trim
Trim(s) == TrimEnd(TrimStart(s))

\* String(n) for an integer n
RECURSIVE NatToString(_)
NatToString(n) ==
    IF n < 10 THEN <<HexDigits[n + 1]>>
    ELSE NatToString(n \div 10) \o <<HexDigits[(n % 10) + 1]>>

NumberToString(n) == IF n < 0 THEN <<"-">> \o NatToString(0 - n) ELSE NatToString(n)

\* The longest prefix of s made of decimal digits.
RECURSIVE DigitPrefix(_)
DigitPrefix(s) ==
    IF s # <<>> /\ IsDigit(Head(s)) THEN <<Head(s)>> \o DigitPrefix(Tail(s)) ELSE <<>>

RECURSIVE DigitsValue(_, _)
DigitsValue(s, acc) ==
    IF s = <<>> THEN acc ELSE DigitsValue(Tail(s), 10 * acc + DigitValue(Head(s)))

\* parseInt(s, 10): skip leading white space, read an optional sign, then the
\* longest run of digits; whatever follows the digits is ignored; NaN when
\* there is no digit.
parseInt(s) ==
    LET t == TrimStart(s)
        neg == t # <<>> /\ Head(t) = "-"
        signed == t # <<>> /\ Head(t) \in {"-", "+"}
        body == IF signed THEN Tail(t) ELSE t
        digits == DigitPrefix(body)
    IN  IF digits = <<>> THEN NaN
        ELSE IF neg THEN Number(0 - DigitsValue(digits, 0))
        ELSE Number(DigitsValue(digits, 0))

(***************************************************************************)
(* JavaScript objects as entry sequences                                   *)
(***************************************************************************)

ObjHas(o, k) == \E i \in 1..Len(o) : o[i][1] = k

ObjGet(o, k) ==
    IF ObjHas(o, k) THEN o[CHOOSE i \in 1..Len(o) : o[i][1] = k][2] ELSE Undefined

\* o[k] = v: an existing property keeps its place, a new one goes last.
RECURSIVE ObjSet(_, _, _)
ObjSet(o, k, v) ==
    IF o = <<>> THEN <<<<k, v>>>>
    ELSE IF Head(o)[1] = k THEN <<<<k, v>>>> \o Tail(o)
    ELSE <<Head(o)>> \o ObjSet(Tail(o), k, v)

\* { ...a, ...b }
RECURSIVE ObjSpread(_, _)
ObjSpread(a, b) ==
    IF b = <<>> THEN a ELSE ObjSpread(ObjSet(a, Head(b)[1], Head(b)[2]), Tail(b))

RECURSIVE ObjKeys(_)
ObjKeys(o) == IF o = <<>> THEN <<>> ELSE <<Head(o)[1]>> \o ObjKeys(Tail(o))

(***************************************************************************)
(* URLSearchParams (application/x-www-form-urlencoded)                     *)
(***************************************************************************)

\* Bytes the serializer leaves as they are: ASCII alphanumerics and * - . _
IsFormSafe(c) ==
    /\ IsAscii(c)
    /\ LET n == CharCode(c)
       IN  \/ (n >= 48 /\ n <= 57) \/ (n >= 65 /\ n <= 90) \/ (n >= 97 /\ n <= 122)
           \/ c \in {"*", "-", ".", "_"}

PercentEncodeByte(n) == <<"%", HexDigits[(n \div 16) + 1], HexDigits[(n % 16) + 1]>>

\* The UTF-8 bytes of a scalar value.
Utf8Encode(cp) ==
    IF cp < 128 THEN <<cp>>
    ELSE IF cp < 2048 THEN <<192 + (cp \div 64), 128 + (cp % 64)>>
    ELSE IF cp < 65536
    THEN <<224 + (cp \div 4096), 128 + ((cp \div 64) % 64), 128 + (cp % 64)>>
    ELSE <<240 + (cp \div 262144), 128 + ((cp \div 4096) % 64),
           128 + ((cp \div 64) % 64), 128 + (cp % 64)>>

RECURSIVE PercentEncodeBytes(_)
PercentEncodeBytes(bytes) ==
    IF bytes = <<>> THEN <<>>
    ELSE PercentEncodeByte(Head(bytes)) \o PercentEncodeBytes(Tail(bytes))

\* The UTF-8 bytes of a scalar value, each percent-encoded.
PercentEncodeScalar(cp) == PercentEncodeBytes(Utf8Encode(cp))

\* The serializer of URLSearchParams on a name or a value: the string as a
\* USVString (a surrogate pair is one scalar value, a surrogate without its
\* partner becomes U+FFFD), its UTF-8 bytes, the space as "+", the safe bytes
\* as they are and every other byte percent-encoded.
RECURSIVE FormEncode(_)
FormEncode(s) ==
    IF s = <<>> THEN <<>>
    ELSE IF Head(s) = " " THEN <<"+">> \o FormEncode(Tail(s))
    ELSE IF IsFormSafe(Head(s)) THEN <<Head(s)>> \o FormEncode(Tail(s))
    ELSE LET u == CodeUnit(Head(s))
             paired == /\ IsHighSurrogate(u) /\ Len(s) >= 2
                       /\ IsLowSurrogate(CodeUnit(s[2]))
             cp == IF paired
                   THEN 65536 + 1024 * (u - 55296) + (CodeUnit(s[2]) - 56320)
                   ELSE IF IsHighSurrogate(u) \/ IsLowSurrogate(u) THEN 65533
                   ELSE u
         IN  PercentEncodeScalar(cp)
                 \o FormEncode(IF paired THEN SubSeq(s, 3, Len(s)) ELSE Tail(s))

\* The UTF-8 decoder between two characters, and after the lead byte b of a
\* character of more than one byte: the bytes still needed, the bits read
\* and the range the next byte has to be in.
Utf8Start == [needed |-> 0, cp |-> 0, lower |-> 128, upper |-> 191]
Utf8Lead(b) ==
    IF b >= 194 /\ b <= 223
    THEN [needed |-> 1, cp |-> b - 192, lower |-> 128, upper |-> 191]
    ELSE IF b >= 224 /\ b <= 239
    THEN [needed |-> 2, cp |-> b - 224,
          lower |-> IF b = 224 THEN 160 ELSE 128,
          upper |-> IF b = 237 THEN 159 ELSE 191]
    ELSE [needed |-> 3, cp |-> b - 240,
          lower |-> IF b = 240 THEN 144 ELSE 128,
          upper |-> IF b = 244 THEN 143 ELSE 191]

\* Percent-decode s to bytes and decode the bytes as UTF-8, as the parser of
\* URLSearchParams does: an escape is one byte, any other ASCII character of
\* s is the byte of its code; bytes that are not well-formed UTF-8 give
\* U+FFFD, one for each maximal ill-formed run, and the byte that ends such a
\* run is read again.  A character of s outside ASCII is its own well-formed
\* bytes and comes out as it is, a surrogate without its partner as U+FFFD.
RECURSIVE Utf8PercentDecode(_, _)
Utf8PercentDecode(s, st) ==
    IF s = <<>> THEN (IF st.needed > 0 THEN <<ReplacementChar>> ELSE <<>>)
    ELSE IF ~IsAscii(Head(s)) /\ CodeUnit(Head(s)) >= 128
    THEN LET u == CodeUnit(Head(s))
             paired == /\ IsHighSurrogate(u) /\ Len(s) >= 2
                       /\ ~IsAscii(s[2]) /\ IsLowSurrogate(CodeUnit(s[2]))
         IN  (IF st.needed > 0 THEN <<ReplacementChar>> ELSE <<>>)
                 \o (IF paired THEN <<Head(s), s[2]>>
                     ELSE IF IsHighSurrogate(u) \/ IsLowSurrogate(u)
                     THEN <<ReplacementChar>>
                     ELSE <<Head(s)>>)
                 \o Utf8PercentDecode(IF paired THEN SubSeq(s, 3, Len(s)) ELSE Tail(s),
                                      Utf8Start)
    ELSE LET escaped == /\ Head(s) = "%" /\ Len(s) >= 3
                        /\ IsHexDigit(s[2]) /\ IsHexDigit(s[3])
             b == IF escaped THEN 16 * HexValue(s[2]) + HexValue(s[3])
                  ELSE CodeUnit(Head(s))
             rest == IF escaped THEN SubSeq(s, 4, Len(s)) ELSE Tail(s)
         IN  IF st.needed = 0
             THEN IF b <= 127
                  THEN <<CharOfCodeUnit(b)>> \o Utf8PercentDecode(rest, Utf8Start)
                  ELSE IF b >= 194 /\ b <= 244
                  THEN Utf8PercentDecode(rest, Utf8Lead(b))
                  ELSE <<ReplacementChar>> \o Utf8PercentDecode(rest, Utf8Start)
             ELSE IF b < st.lower \/ b > st.upper
                  THEN <<ReplacementChar>> \o Utf8PercentDecode(s, Utf8Start)
                  ELSE LET cp == 64 * st.cp + (b - 128)
                       IN  IF st.needed = 1
                           THEN CharsOfCodePoint(cp) \o Utf8PercentDecode(rest, Utf8Start)
                           ELSE Utf8PercentDecode(rest,
                                    [needed |-> st.needed - 1, cp |-> cp,
                                     lower |-> 128, upper |-> 191])

PercentDecode(s) == Utf8PercentDecode(s, Utf8Start)

RECURSIVE PlusToSpace(_)
PlusToSpace(s) ==
    IF s = <<>> THEN <<>>
    ELSE <<IF Head(s) = "+" THEN " " ELSE Head(s)>> \o PlusToSpace(Tail(s))

FormDecode(s) == PercentDecode(PlusToSpace(s))

\* The pieces of s between occurrences of sep.
RECURSIVE SplitOn(_, _, _)
SplitOn(s, sep, cur) ==
    IF s = <<>> THEN <<cur>>
    ELSE IF Head(s) = sep THEN <<cur>> \o SplitOn(Tail(s), sep, <<>>)
    ELSE SplitOn(Tail(s), sep, Append(cur, Head(s)))

IndexOf(s, c) ==
    IF \E i \in 1..Len(s) : s[i] = c
    THEN CHOOSE i \in 1..Len(s) : s[i] = c /\ \A j \in 1..(i - 1) : s[j] # c
    ELSE 0

\* One name=value piece of a query string, decoded.
ParsePair(piece) ==
    LET eq == IndexOf(piece, "=")
        name == IF eq = 0 THEN piece ELSE SubSeq(piece, 1, eq - 1)
        value == IF eq = 0 THEN <<>> ELSE SubSeq(piece, eq + 1, Len(piece))
    IN  <<FormDecode(name), FormDecode(value)>>

RECURSIVE ParsePieces(_)
ParsePieces(pieces) ==
    IF pieces = <<>> THEN <<>>
    ELSE (IF Head(pieces) = <<>> THEN <<>> ELSE <<ParsePair(Head(pieces))>>)
             \o ParsePieces(Tail(pieces))

\* new URLSearchParams(init): one leading "?" is dropped, the rest is split on
\* "&", empty pieces are skipped.
URLSearchParams(init) ==
    LET body == IF init # <<>> /\ Head(init) = "?" THEN Tail(init) ELSE init
    IN  ParsePieces(SplitOn(body, "&", <<>>))

\* params.get(name): the value of the first pair of that name, or null.
ParamsGet(params, name) ==
    IF \E i \in 1..Len(params) : params[i][1] = name
    THEN params[CHOOSE i \in 1..Len(params) :
                    params[i][1] = name /\ \A j \in 1..(i - 1) : params[j][1] # name][2]
    ELSE Null

\* params.set(name, value): the first pair of that name takes the value and
\* the others are removed; a new name is appended.
ParamsSet(params, name, value) ==
    IF \E i \in 1..Len(params) : params[i][1] = name
    THEN LET first == CHOOSE i \in 1..Len(params) :
                          params[i][1] = name /\ \A j \in 1..(i - 1) : params[j][1] # name
             OtherName(p) == p[1] # name
         IN  SubSeq(params, 1, first - 1) \o <<<<name, value>>>>
                 \o SelectSeq(SubSeq(params, first + 1, Len(params)), OtherName)
    ELSE Append(params, <<name, value>>)

\* params.toString()
RECURSIVE ParamsToString(_)
ParamsToString(params) ==
    IF params = <<>> THEN <<>>
    ELSE FormEncode(Head(params)[1]) \o <<"=">> \o FormEncode(Head(params)[2])
             \o (IF Len(params) > 1 THEN <<"&">> ELSE <<>>)
             \o ParamsToString(Tail(params))

(***************************************************************************)
(* Metric model (lib/metrics.ts)                                           *)
(***************************************************************************)

METRIC_NAMES ==
    <<"Focus", "Social Interaction", "Sensory Sensitivity", "Motor Skills",
      "Routine Preference", "Emotional Regulation">>

MAX_METRIC_SCORE == 5
DEFAULT_METRIC_SCORE == 2

\* value >= 0 && value <= 5, without Number.isInteger(value)
isValidMetricScoreNoIntegerTest(value) == NumGE(value, 0) /\ NumLE(value, 5)

\* Number.isInteger(value) && value >= 0 && value <= 5
isValidMetricScore(value) ==
    NumberIsInteger(value) /\ NumGE(value, 0) /\ NumLE(value, 5)

\* lib/metrics.ts: the classifiers of a score, thresholds 1 and 3.
getSupportInfo(score) ==
    IF score <= 1
    THEN [level |-> "highNeed", label |-> "High Support",
          color |-> "#dc2626", bgColor |-> "#fef2f2"]
    ELSE IF score <= 3
    THEN [level |-> "moderate", label |-> "Moderate",
          color |-> "#d97706", bgColor |-> "#fffbeb"]
    ELSE [level |-> "independent", label |-> "Independent",
          color |-> "#059669", bgColor |-> "#ecfdf5"]

getSupportLevelLabel(score) == getSupportInfo(score).label

\* The two first branches exchanged.
getSupportLevelSwapped(score) ==
    IF score <= 1 THEN "moderate"
    ELSE IF score <= 3 THEN "highNeed"
    ELSE "independent"

getSupportLevel(score) ==
    IF score <= 1 THEN "highNeed"
    ELSE IF score <= 3 THEN "moderate"
    ELSE "independent"

\* The second threshold at 2 where the code has 3.
getIntensityLabelThresholdTwo(score) ==
    IF score <= 1 THEN "Low"
    ELSE IF score <= 2 THEN "Medium"
    ELSE "High"

getIntensityLabel(score) ==
    IF score <= 1 THEN "Low"
    ELSE IF score <= 3 THEN "Medium"
    ELSE "High"

getScoreColor(score) ==
    IF score <= 1 THEN "#ef4444"
    ELSE IF score <= 3 THEN "#f59e0b"
    ELSE "#10b981"

\* lib/sharing.ts getSupportLevel, the label of the CSV report.
sharing_getSupportLevel(score) ==
    IF score <= 1 THEN "High Support"
    ELSE IF score <= 3 THEN "Moderate"
    ELSE "Independent"

(***************************************************************************)
(* Share Codec                                                             *)
(***************************************************************************)

\* components/ShareModal.tsx: metric name -> short key
METRIC_KEY_MAP ==
    <<<<"Focus", <<"f">>>>,
      <<"Social Interaction", <<"s", "i">>>>,
      <<"Sensory Sensitivity", <<"s", "s">>>>,
      <<"Motor Skills", <<"m", "s">>>>,
      <<"Routine Preference", <<"r", "p">>>>,
      <<"Emotional Regulation", <<"e", "r">>>>>>

\* short key -> metric name, in the order Object.entries walks it
KEY_METRIC_MAP ==
    <<<<<<"f">>, "Focus">>,
      <<<<"s", "i">>, "Social Interaction">>,
      <<<<"s", "s">>, "Sensory Sensitivity">>,
      <<<<"m", "s">>, "Motor Skills">>,
      <<<<"r", "p">>, "Routine Preference">>,
      <<<<"e", "r">>, "Emotional Regulation">>>>

NameKey == <<"n", "a", "m", "e">>

\* window.location.origin + window.location.pathname of the page
baseUrl == <<"h", "t", "t", "p", "s", ":", "/", "/", "a", ".", "b", "/">>

\* The loop of generateShareUrl over Object.entries(metrics).
RECURSIVE AddMetricParams(_, _)
AddMetricParams(params, entries) ==
    IF entries = <<>> THEN params
    ELSE LET key == ObjGet(METRIC_KEY_MAP, Head(entries)[1])
         IN  AddMetricParams(
                 IF key # Undefined
                 THEN ParamsSet(params, key, NumberToString(Head(entries)[2]))
                 ELSE params,
                 Tail(entries))

\* params.set('name', name) without the trim.
generateShareUrlUntrimmed(m, name) ==
    LET named == IF name # Undefined /\ Trim(name) # <<>>
                 THEN ParamsSet(<<>>, NameKey, name)
                 ELSE <<>>
    IN  baseUrl \o <<"?">> \o ParamsToString(AddMetricParams(named, m))

\* if (name !== undefined) in place of if (name?.trim()).
generateShareUrlAlwaysNamed(m, name) ==
    LET named == IF name # Undefined
                 THEN ParamsSet(<<>>, NameKey, Trim(name))
                 ELSE <<>>
    IN  baseUrl \o <<"?">> \o ParamsToString(AddMetricParams(named, m))


generateShareUrl(m, name) ==
    LET named == IF name # Undefined /\ Trim(name) # <<>>
                 THEN ParamsSet(<<>>, NameKey, Trim(name))
                 ELSE <<>>
    IN  baseUrl \o <<"?">> \o ParamsToString(AddMetricParams(named, m))

\* window.location.search of a URL: from the first "?" on, empty when the
\* query is empty.
LocationSearch(url) ==
    LET q == IndexOf(url, "?")
    IN  IF q = 0 \/ q = Len(url) THEN <<>> ELSE SubSeq(url, q, Len(url))

\* score <= 5 alone
ScoreInRangeNoLowerBound(score) == score.kind = "number" /\ score.value <= 5

\* score >= 0 && score <= 10, the scale of the earlier variant of the app.
ScoreInRangeUpToTen(score) == score.kind = "number" /\ score.value >= 0 /\ score.value <= 10


\* lib/sharing.ts line 166: score >= 0 && score <= 5 (false for NaN)
ScoreInRange(score) == score.kind = "number" /\ score.value >= 0 /\ score.value <= 5

\* The loop over Object.entries(KEY_METRIC_MAP) of lib/sharing.ts
\* parseUrlMetrics; acc is [metrics, hasMetrics].
RECURSIVE ParseMetricKeys(_, _, _)
ParseMetricKeys(params, keys, acc) ==
    IF keys = <<>> THEN acc
    ELSE LET value == ParamsGet(params, Head(keys)[1])
             score == parseInt(value)
             next == IF value # Null /\ ScoreInRange(score)
                     THEN [metrics |-> ObjSet(acc.metrics, Head(keys)[2], score.value),
                           hasMetrics |-> TRUE]
                     ELSE acc
         IN  ParseMetricKeys(params, Tail(keys), next)

\* lib/sharing.ts parseUrlMetrics(searchParams)
parseUrlMetrics(searchParams) ==
    LET params == URLSearchParams(searchParams)
        acc == ParseMetricKeys(params, KEY_METRIC_MAP,
                               [metrics |-> <<>>, hasMetrics |-> FALSE])
        name == ParamsGet(params, NameKey)
    IN  IF ~acc.hasMetrics THEN NullResult ELSE [metrics |-> acc.metrics, name |-> name]

\* The same loop in App.tsx, which validates with isValidMetricScore.
RECURSIVE AppParseMetricKeys(_, _, _)
AppParseMetricKeys(params, keys, acc) ==
    IF keys = <<>> THEN acc
    ELSE LET value == ParamsGet(params, Head(keys)[1])
             score == parseInt(value)
             next == IF value # Null /\ isValidMetricScore(score)
                     THEN [metrics |-> ObjSet(acc.metrics, Head(keys)[2], score.value),
                           hasMetrics |-> TRUE]
                     ELSE acc
         IN  AppParseMetricKeys(params, Tail(keys), next)

\* App.tsx parseUrlMetrics(), reading window.location.search
AppParseUrlMetrics(locationSearch) ==
    LET params == URLSearchParams(locationSearch)
        acc == AppParseMetricKeys(params, KEY_METRIC_MAP,
                                  [metrics |-> <<>>, hasMetrics |-> FALSE])
        name == ParamsGet(params, NameKey)
    IN  IF ~acc.hasMetrics THEN NullResult ELSE [metrics |-> acc.metrics, name |-> name]

(***************************************************************************)
(* Recommendation Engine (lib/recommendations.ts)                          *)
(***************************************************************************)

s(text, source) == [text |-> text, source |-> source]

\* The static table: metric -> audience -> level -> strategies.
supportStrategies ==
    "Focus" :> [
        parent |-> [
            highNeed |-> <<
                s("Create a quiet, distraction-free workspace with minimal visual stimuli",
                  "CHADD"),
                s("Use timers and break down tasks into smaller, manageable chunks (Pomodoro technique)",
                  "Understood"),
                s("Implement a consistent daily routine to reduce decision fatigue",
                  "CHADD")
            >>,
            moderate |-> <<
                s("Offer structured activity times with breaks between focused work",
                  "CHADD"),
                s("Use visual schedules and checklists to help with task organization",
                  "Understood"),
                s("Celebrate small wins to maintain motivation",
                  "Understood")
            >>,
            independent |-> <<
                s("Continue supporting focus with occasional check-ins",
                  "Understood"),
                s("Encourage self-directed projects that match their interests",
                  "ASAN"),
                s("Model good focus habits and work alongside them sometimes",
                  "Understood")
            >>
        ],
        teacher |-> [
            highNeed |-> <<
                s("Seat student near the front, away from distractions; use preferential seating",
                  "CHADD"),
                s("Provide written instructions in addition to verbal; use visual supports",
                  "Understood"),
                s("Allow use of fidget tools, headphones, or movement breaks as needed",
                  "CHADD")
            >>,
            moderate |-> <<
                s("Break complex assignments into smaller parts with check-ins",
                  "CHADD"),
                s("Offer flexible seating and allow movement between tasks",
                  "Understood"),
                s("Use multimodal instruction (visual, auditory, kinesthetic)",
                  "Understood")
            >>,
            independent |-> <<
                s("Provide choice in how to demonstrate learning",
                  "Understood"),
                s("Encourage peer collaboration and group projects",
                  "Understood"),
                s("Offer challenge activities to maintain engagement",
                  "CHADD")
            >>
        ]
    ]
    @@ "Social Interaction" :> [
        parent |-> [
            highNeed |-> <<
                s("Model social scripts and practice interactions through role-play at home",
                  "Understood"),
                s("Create structured social opportunities (clubs, small groups) rather than free-for-all events",
                  "ASAN"),
                s("Use visual supports (social stories, emotion charts) to teach social cues",
                  "Understood")
            >>,
            moderate |-> <<
                s("Support developing 1-2 close friendships over large social circles",
                  "ASAN"),
                s("Teach self-advocacy and how to ask for help or space",
                  "ASAN"),
                s("Validate social anxiety and celebrate small social efforts",
                  "Understood")
            >>,
            independent |-> <<
                s("Encourage participation in interest-based groups or communities",
                  "ASAN"),
                s("Support developing their own social strategies and preferences",
                  "ASAN"),
                s("Respect their natural social style; not everyone needs a large friend group",
                  "ASAN")
            >>
        ],
        teacher |-> [
            highNeed |-> <<
                s("Assign a peer buddy or mentor; use structured partner work",
                  "Understood"),
                s("Teach explicit social rules and expected behaviors; use visual supports",
                  "Understood"),
                s("Allow breaks from social situations when overwhelmed; provide a safe space",
                  "ASAN")
            >>,
            moderate |-> <<
                s("Facilitate small-group projects with clear roles and responsibilities",
                  "Understood"),
                s("Teach and reinforce social skills during teachable moments",
                  "Understood"),
                s("Provide choice in group composition when possible",
                  "ASAN")
            >>,
            independent |-> <<
                s("Include student voice in classroom discussions and community building",
                  "ASAN"),
                s("Support leadership or mentoring roles if interested",
                  "Understood"),
                s("Create inclusive classroom where diverse social styles are valued",
                  "ASAN")
            >>
        ]
    ]
    @@ "Sensory Sensitivity" :> [
        parent |-> [
            highNeed |-> <<
                s("Identify specific triggers (sounds, textures, lights) and create predictable sensory environment",
                  "ASAN"),
                s("Offer calming tools: weighted blankets, noise-canceling headphones, fidget items",
                  "Understood"),
                s("Allow withdrawal/quiet time when overwhelmed; don't force sensory experiences",
                  "ASAN")
            >>,
            moderate |-> <<
                s("Provide advance warning of sensory changes (loud events, crowded spaces)",
                  "ASAN"),
                s("Teach sensory self-regulation: deep breathing, counting, movement breaks",
                  "Understood"),
                s("Respect sensory preferences in clothing, food, and activities",
                  "ASAN")
            >>,
            independent |-> <<
                s("Support self-advocacy about sensory needs to peers and others",
                  "ASAN"),
                s("Encourage awareness of their own sensory patterns",
                  "ASAN"),
                s("Celebrate their sensory awareness as a strength",
                  "ASAN")
            >>
        ],
        teacher |-> [
            highNeed |-> <<
                s("Reduce sensory triggers: dim lights, minimize clutter, control noise levels",
                  "ASAN"),
                s("Provide access to quiet space or sensory corner when needed",
                  "Understood"),
                s("Give advance notice of assemblies, fire drills, or unusual auditory/visual events",
                  "ASAN")
            >>,
            moderate |-> <<
                s("Offer headphones during noisy activities; allow movement breaks",
                  "CHADD"),
                s("Respect seating preferences and classroom positioning needs",
                  "ASAN"),
                s("Use calming sensory tools (stress balls, fidgets) during instruction",
                  "Understood")
            >>,
            independent |-> <<
                s("Allow student input on classroom sensory environment",
                  "ASAN"),
                s("Support self-regulation strategies during unstructured times",
                  "Understood"),
                s("Model sensory awareness and accommodations as normal and positive",
                  "ASAN")
            >>
        ]
    ]
    @@ "Motor Skills" :> [
        parent |-> [
            highNeed |-> <<
                s("Practice fine motor skills through play: play dough, threading, puzzles, drawing",
                  "Understood"),
                s("Use adapted utensils, pencil grips, or pencil grips to support writing",
                  "Understood"),
                s("Be patient with self-care tasks (dressing, eating); offer support without shame",
                  "ASAN")
            >>,
            moderate |-> <<
                s("Encourage activities that build strength and coordination: swimming, sports, climbing",
                  "Understood"),
                s("Practice handwriting with multi-sensory approaches (sandpaper letters, sky-writing)",
                  "Understood"),
                s("Celebrate effort and progress, not perfection in physical tasks",
                  "ASAN")
            >>,
            independent |-> <<
                s("Support development of interests in physical activities or sports",
                  "Understood"),
                s("Encourage self-chosen movement and exercise",
                  "ASAN"),
                s("Allow natural development of motor skills at their own pace",
                  "ASAN")
            >>
        ],
        teacher |-> [
            highNeed |-> <<
                s("Provide extra time and modified expectations for handwriting; allow typed work",
                  "Understood"),
                s("Use adapted grip aids, sloped desks, or alternative writing tools",
                  "Understood"),
                s("Break physical tasks into smaller steps with demonstration",
                  "Understood")
            >>,
            moderate |-> <<
                s("Offer movement breaks throughout the day",
                  "CHADD"),
                s("Accept alternative ways to show learning (verbal responses, typing, drawing)",
                  "Understood"),
                s("Provide encouragement and model persistence with physical tasks",
                  "Understood")
            >>,
            independent |-> <<
                s("Include student in selection of physical activities and PE modifications",
                  "ASAN"),
                s("Support participation in sports, arts, or movement-based clubs",
                  "Understood"),
                s("Celebrate diverse ways of being physical",
                  "ASAN")
            >>
        ]
    ]
    @@ "Routine Preference" :> [
        parent |-> [
            highNeed |-> <<
                s("Establish consistent daily routines and stick to them; use visual schedules",
                  "Understood"),
                s("Prepare child in advance for any changes; give multiple warnings before transitions",
                  "ASAN"),
                s("Create rituals around transitions (10-min warning, countdown timer)",
                  "CHADD")
            >>,
            moderate |-> <<
                s("Maintain consistent meal times, bedtimes, and key routines",
                  "Understood"),
                s("Prepare for changes with pictures or discussions ahead of time",
                  "Understood"),
                s("Use visual schedules to show daily flow and upcoming changes",
                  "CHADD")
            >>,
            independent |-> <<
                s("Support their preference for structure while allowing some flexibility",
                  "ASAN"),
                s("Help them develop their own routines and organizational systems",
                  "Understood"),
                s("Celebrate their ability to organize and plan",
                  "ASAN")
            >>
        ],
        teacher |-> [
            highNeed |-> <<
                s("Maintain consistent classroom schedule and provide advance notice of changes",
                  "CHADD"),
                s("Use visual daily schedule visible to all students",
                  "Understood"),
                s("Create transition rituals; warn before changes (5-min, 2-min, then transition)",
                  "CHADD")
            >>,
            moderate |-> <<
                s("Keep consistent routines for major activities (start of day, lunch, transitions)",
                  "CHADD"),
                s("Show upcoming schedule and why changes are happening",
                  "Understood"),
                s("Allow processing time for changes and unexpected situations",
                  "ASAN")
            >>,
            independent |-> <<
                s("Share schedule changes in advance when possible",
                  "Understood"),
                s("Support student leadership in organizing classroom routines",
                  "ASAN"),
                s("Respect their preference for structure as a strength",
                  "ASAN")
            >>
        ]
    ]
    @@ "Emotional Regulation" :> [
        parent |-> [
            highNeed |-> <<
                s("Teach emotion recognition: name feelings, use emotion charts or color codes",
                  "Understood"),
                s("Build calm-down toolkit together: breathing techniques, music, movement, sensory items",
                  "CHADD"),
                s("Stay calm during meltdowns; prioritize safety, comfort, and reconnection",
                  "ASAN")
            >>,
            moderate |-> <<
                s("Validate emotions without trying to 'fix' them immediately",
                  "ASAN"),
                s("Teach coping strategies: deep breathing, self-talk, physical activity",
                  "CHADD"),
                s("Create a feelings journal or art project to express emotions",
                  "Understood")
            >>,
            independent |-> <<
                s("Support development of their own emotion regulation strategies",
                  "ASAN"),
                s("Respect their emotional style and processing time",
                  "ASAN"),
                s("Celebrate emotional awareness and self-understanding",
                  "ASAN")
            >>
        ],
        teacher |-> [
            highNeed |-> <<
                s("Teach explicit emotion regulation: breathing, movement, sensory breaks",
                  "CHADD"),
                s("Provide a safe space (cool-down area) for when emotions are big",
                  "Understood"),
                s("Use visual supports: emotion thermometers, zones of regulation, feeling cards",
                  "Understood")
            >>,
            moderate |-> <<
                s("Check in regularly about feelings; validate emotions",
                  "ASAN"),
                s("Teach self-regulation strategies during calm times for use during stress",
                  "CHADD"),
                s("Offer choices to promote autonomy and reduce frustration",
                  "ASAN")
            >>,
            independent |-> <<
                s("Create a supportive classroom where feelings are discussed openly",
                  "ASAN"),
                s("Support peer support and empathy building",
                  "Understood"),
                s("Model emotional regulation for all students",
                  "CHADD")
            >>
        ]
    ]

getScoreLevel(score) ==
    IF score <= 1 THEN "highNeed"
    ELSE IF score <= 3 THEN "moderate"
    ELSE "independent"

\* array.slice(from, to) with 0 <= from <= to
Slice(seq, from, to) ==
    SubSeq(seq, from + 1, IF to < Len(seq) THEN to ELSE Len(seq))

\* One step of the stable sort: e goes before the first entry whose score is
\* strictly greater, so entries of equal score keep their order.
RECURSIVE InsertByScore(_, _)
InsertByScore(sorted, e) ==
    IF sorted = <<>> THEN <<e>>
    ELSE IF e[2] < Head(sorted)[2] THEN <<e>> \o sorted
    ELSE <<Head(sorted)>> \o InsertByScore(Tail(sorted), e)

\* entries.sort(([, scoreA], [, scoreB]) => scoreA - scoreB); Array.prototype.sort
\* is stable.
RECURSIVE SortByScore(_)
SortByScore(entries) ==
    IF entries = <<>> THEN <<>>
    ELSE InsertByScore(SortByScore(SubSeq(entries, 1, Len(entries) - 1)),
                       entries[Len(entries)])

\* The comparator the other way round: scoreB - scoreA.
RECURSIVE InsertByScoreDescending(_, _)
InsertByScoreDescending(sorted, e) ==
    IF sorted = <<>> THEN <<e>>
    ELSE IF e[2] > Head(sorted)[2] THEN <<e>> \o sorted
    ELSE <<Head(sorted)>> \o InsertByScoreDescending(Tail(sorted), e)

RECURSIVE SortByScoreDescending(_)
SortByScoreDescending(entries) ==
    IF entries = <<>> THEN <<>>
    ELSE InsertByScoreDescending(
             SortByScoreDescending(SubSeq(entries, 1, Len(entries) - 1)),
             entries[Len(entries)])

sortedMetricsDescending(m) == Slice(SortByScoreDescending(m), 0, 3)

\* slice(0, 4): the four lowest-scoring metrics.
sortedMetricsFour(m) == Slice(SortByScore(m), 0, 4)


\* Object.entries(metrics).sort(...).slice(0, 3)
sortedMetrics(m) == Slice(SortByScore(m), 0, 3)

\* slice(0, 0) where the code has slice(0, 2): nothing is taken from a bucket.
TopStrategiesNone(bucket) == Slice(bucket, 0, 0)


\* bucket.slice(0, 3)
TopStrategiesThree(bucket) == Slice(bucket, 0, 3)

\* bucket.slice(0, 2)
TopStrategies(bucket) == Slice(bucket, 0, 2)

\* list.push(strat) with no look at the texts already held.
AddStrategyUnchecked(map, strat) == Append(map, <<strat.text, strat>>)

\* map.set(strat.text, strat) whether or not the text is held: the entry keeps
\* its place and takes the later strategy.
AddStrategyLastWins(map, strat) == ObjSet(map, strat.text, strat)

\* if (!map.has(strat.text)) map.set(strat.text, strat); the Map is the
\* sequence of its entries in insertion order.
AddStrategy(map, strat) ==
    IF ObjHas(map, strat.text) THEN map ELSE Append(map, <<strat.text, strat>>)

RECURSIVE AddStrategies(_, _)
AddStrategies(map, strats) ==
    IF strats = <<>> THEN map
    ELSE AddStrategies(AddStrategy(map, Head(strats)), Tail(strats))

\* Array.from(map.values()).reverse()
RECURSIVE MapValuesReversed(_)
MapValuesReversed(map) ==
    IF map = <<>> THEN <<>> ELSE MapValuesReversed(Tail(map)) \o <<Head(map)[2]>>

\* Array.from(map.values())
RECURSIVE MapValues(_)
MapValues(map) == IF map = <<>> THEN <<>> ELSE <<Head(map)[2]>> \o MapValues(Tail(map))

\* The loop over the priority metrics; acc holds the two Maps.
RECURSIVE CollectStrategies(_, _)
CollectStrategies(priority, acc) ==
    IF priority = <<>> THEN acc
    ELSE LET metricName == Head(priority)[1]
             level == getScoreLevel(Head(priority)[2])
             next ==
                 IF metricName \in DOMAIN strategies
                 THEN [parent |-> AddStrategies(acc.parent,
                           TopStrategies(strategies[metricName].parent[level])),
                       teacher |-> AddStrategies(acc.teacher,
                           TopStrategies(strategies[metricName].teacher[level]))]
                 ELSE acc
         IN  CollectStrategies(Tail(priority), next)

\* What a call returns when it throws a TypeError.
TypeError == [threw |-> "TypeError"]

\* The guard reduced to Object.keys(metrics).length === 0: Object.keys throws
\* on null and undefined.
generateRecommendationsNoNullGuard(m) ==
    IF m = Null \/ m = Undefined THEN TypeError
    ELSE IF Len(m) = 0 THEN [parent |-> <<>>, teacher |-> <<>>]
    ELSE LET maps == CollectStrategies(sortedMetrics(m),
                                       [parent |-> <<>>, teacher |-> <<>>])
         IN  [parent |-> MapValues(maps.parent), teacher |-> MapValues(maps.teacher)]

generateRecommendations(m) ==
    IF m = Null \/ m = Undefined \/ Len(m) = 0
    THEN [parent |-> <<>>, teacher |-> <<>>]
    ELSE LET maps == CollectStrategies(sortedMetrics(m),
                                       [parent |-> <<>>, teacher |-> <<>>])
         IN  [parent |-> MapValues(maps.parent), teacher |-> MapValues(maps.teacher)]

(***************************************************************************)
(* Inputs                                                                  *)
(***************************************************************************)

Scores == 0..MAX_METRIC_SCORE

\* Longest name typed into the share form.
MaxNameLen == 2
\* Most name=value pieces in a query string handed to the decoders.
MaxParams == 2
\* Most keys of a profile that is not complete.
MaxPartialKeys == 2

Profile(f) ==
    <<<<METRIC_NAMES[1], f[1]>>, <<METRIC_NAMES[2], f[2]>>, <<METRIC_NAMES[3], f[3]>>,
      <<METRIC_NAMES[4], f[4]>>, <<METRIC_NAMES[5], f[5]>>, <<METRIC_NAMES[6], f[6]>>>>

\* Every complete profile, keys in declaration order as getInitialMetrics
\* builds them.
CompleteProfiles == {Profile(f) : f \in [1..6 -> Scores]}

DefaultProfile == Profile([i \in 1..6 |-> DEFAULT_METRIC_SCORE])

KeySet(o) == {o[i][1] : i \in 1..Len(o)}
MetricNameSet == {METRIC_NAMES[i] : i \in 1..Len(METRIC_NAMES)}

\* Profiles of n distinct metrics, in any key order.
RECURSIVE ProfilesOfSize(_)
ProfilesOfSize(n) ==
    IF n = 0 THEN {<<>>}
    ELSE UNION {{Append(p, <<k, sc>>) : k \in MetricNameSet \ KeySet(p), sc \in Scores} :
                    p \in ProfilesOfSize(n - 1)}

PartialProfiles == UNION {ProfilesOfSize(n) : n \in 0..MaxPartialKeys}

\* Characters of a typed name: a letter, the space that trim and the encoder
\* treat specially, and the characters the query syntax reserves.
NameChars == {"A", " ", "+", "&", "=", "%"}

RECURSIVE StringsOfLen(_, _)
StringsOfLen(chars, n) ==
    IF n = 0 THEN {<<>>}
    ELSE {Append(w, c) : w \in StringsOfLen(chars, n - 1), c \in chars}

\* Names that spell the words for no value.
WordNames ==
    {<<"n", "u", "l", "l">>, <<"u", "n", "d", "e", "f", "i", "n", "e", "d">>}

\* Names outside printable ASCII: an accented letter, a letter between an
\* ideographic space and a no-break space (white space that trim removes), a
\* character over U+FFFF as its two surrogates, and a control character.
UnicodeNames ==
    {<<"U+00E9">>, <<"U+3000", "A", "U+00A0">>, <<"U+D83D", "U+DE00">>,
     <<"A", "U+0000">>}

TypedNames ==
    (UNION {StringsOfLen(NameChars, n) : n \in 0..MaxNameLen})
        \cup WordNames \cup UnicodeNames

\* The profile of the round-trip example and the uniform profiles.
ExampleProfile == Profile(<<1, 4, 0, 5, 3, 2>>)
UniformProfiles == {Profile([i \in 1..6 |-> sc]) : sc \in Scores}

\* Values a query parameter carries: scores at both ends of the range,
\* integers outside it, texts that are not integers, and a score after an
\* escaped tab.
ValueTexts ==
    {<<"0">>, <<"5">>, <<"6">>, <<"-", "1">>, <<"2", ".", "5">>, <<"3", "a">>,
     <<>>, <<"a">>, <<"%", "0", "9", "3">>}

MetricKeys == {KEY_METRIC_MAP[i][1] : i \in 1..Len(KEY_METRIC_MAP)}

\* name=value pieces of a query string: every short key with every value
\* text, a name and a parameter the decoders do not know.
QueryPieces ==
    {k \o <<"=">> \o v : k \in MetricKeys, v \in ValueTexts}
        \cup {NameKey \o <<"=", "A">>, <<"x", "=", "1">>}

\* The query string of a sequence of pieces: the pieces with "&" between them.
RECURSIVE JoinPieces(_)
JoinPieces(pieces) ==
    IF Len(pieces) = 0 THEN <<>>
    ELSE IF Len(pieces) = 1 THEN pieces[1]
    ELSE JoinPieces(SubSeq(pieces, 1, Len(pieces) - 1)) \o <<"&">> \o pieces[Len(pieces)]

\* The sequences of n pieces.
PieceSeqs(n) == [1..n -> QueryPieces]

\* window.location.search for a query: empty, or "?" and the query.
SearchOf(q) == IF q = <<>> THEN <<>> ELSE <<"?">> \o q

(***************************************************************************)
(* Specifications                                                          *)
(***************************************************************************)

\* The App component is not mounted in a run of the codec or of the engine.
AppIdle ==
    /\ isReady = FALSE
    /\ isViewingMode = FALSE
    /\ sharedName = Null
    /\ currentView = "edit"
    /\ legalPage = Null
    /\ showPlaintext = FALSE
    /\ viewing = Unset
    /\ effectPending = FALSE
    /\ events = 0

\* No classifier is called in a run of the codec, the engine or the app.
ClassifyIdle ==
    /\ givenScore = 0
    /\ classified = Unset
    /\ givenValue = NaN
    /\ valid = Unset

\* Nothing is rendered or exported outside a run of the display or the report.
ExportIdle ==
    /\ shown = Unset
    /\ csvInput = Unset
    /\ csv = Unset

\* The database is not opened outside a run of the log store.
DbIdle ==
    /\ installKey = Undefined
    /\ logs = <<>>
    /\ saves = <<>>
    /\ requests = <<>>
    /\ keysGenerated = 0
    /\ reads = <<>>
    /\ db = Null
    /\ sodium = "loading"
    /\ sodiumReady = FALSE

\* A share: a profile and a typed name, to be encoded and decoded again.
InitShare ==
    /\ scenario = "share"
    /\ \/ metrics \in CompleteProfiles /\ shareName = Undefined
       \/ metrics \in UniformProfiles \cup {ExampleProfile} /\ shareName \in TypedNames
    /\ shareUrl = Null
    /\ search = Null
    /\ parsed = Unset
    /\ appParsed = Unset
    /\ strategies = supportStrategies
    /\ recommendations = Unset
    /\ AppIdle
    /\ ClassifyIdle
    /\ ExportIdle
    /\ DbIdle

\* A page load with an arbitrary query string.
InitLoad ==
    /\ scenario = "load"
    /\ metrics = DefaultProfile
    /\ shareName = Undefined
    /\ shareUrl = Null
    /\ \E n \in 0..MaxParams :
           \E pieces \in PieceSeqs(n) : search = SearchOf(JoinPieces(pieces))
    /\ parsed = Unset
    /\ appParsed = Unset
    /\ strategies = supportStrategies
    /\ recommendations = Unset
    /\ AppIdle
    /\ ClassifyIdle
    /\ ExportIdle
    /\ DbIdle

InitCodec == InitShare \/ InitLoad

\* ShareModal / App.tsx shareUrl: encode the profile and the name.
GenerateShareUrl ==
    /\ scenario = "share"
    /\ shareUrl = Null
    /\ shareUrl' = generateShareUrl(metrics, shareName)
    /\ UNCHANGED <<scenario, metrics, shareName, search, parsed, appParsed,
                   strategies, recommendations>>
    /\ UNCHANGED <<appVars, classVars, exportVars, dbVars>>

\* The recipient opens the share URL: its query becomes location.search.
OpenShareUrl ==
    /\ shareUrl # Null
    /\ search = Null
    /\ search' = LocationSearch(shareUrl)
    /\ UNCHANGED <<scenario, metrics, shareName, shareUrl, parsed, appParsed,
                   strategies, recommendations>>
    /\ UNCHANGED <<appVars, classVars, exportVars, dbVars>>

\* lib/sharing.ts parseUrlMetrics on the query string.
ParseUrlMetrics ==
    /\ search # Null
    /\ parsed = Unset
    /\ parsed' = parseUrlMetrics(search)
    /\ UNCHANGED <<scenario, metrics, shareName, shareUrl, search, appParsed,
                   strategies, recommendations>>
    /\ UNCHANGED <<appVars, classVars, exportVars, dbVars>>

\* App.tsx parseUrlMetrics on window.location.search.
AppParseUrlMetricsStep ==
    /\ search # Null
    /\ parsed # Unset
    /\ appParsed = Unset
    /\ appParsed' = AppParseUrlMetrics(search)
    /\ UNCHANGED <<scenario, metrics, shareName, shareUrl, search, parsed,
                   strategies, recommendations>>
    /\ UNCHANGED <<appVars, classVars, exportVars, dbVars>>

NextCodec == GenerateShareUrl \/ OpenShareUrl \/ ParseUrlMetrics \/ AppParseUrlMetricsStep

SpecCodec == InitCodec /\ [][NextCodec]_vars

\* The static table has no text twice, so on it the Maps of the engine never
\* meet a text they already hold.  These tables differ from it in one or two
\* entries that take the text of another entry under another source: in the
\* buckets of two metrics at one level, of two metrics at different levels,
\* and twice in one bucket.
RepeatedTextTables ==
    {[supportStrategies EXCEPT
          !["Social Interaction"].parent.moderate[1] =
              s(supportStrategies["Focus"].parent.moderate[2].text, "ASAN"),
          !["Social Interaction"].teacher.moderate[2] =
              s(supportStrategies["Focus"].teacher.moderate[1].text, "ASAN")],
     [supportStrategies EXCEPT
          !["Emotional Regulation"].parent.highNeed[1] =
              s(supportStrategies["Focus"].parent.independent[1].text, "CHADD")],
     [supportStrategies EXCEPT
          !["Motor Skills"].teacher.highNeed[2] =
              s(supportStrategies["Motor Skills"].teacher.highNeed[1].text, "ASAN")]}

\* A call of the engine on a profile, or on null or undefined.
EngineCall(tables) ==
    /\ scenario = "engine"
    /\ \/ metrics \in CompleteProfiles \cup PartialProfiles
       \/ metrics = Null
       \/ metrics = Undefined
    /\ shareName = Undefined
    /\ shareUrl = Null
    /\ search = Null
    /\ parsed = Unset
    /\ appParsed = Unset
    /\ strategies \in tables
    /\ recommendations = Unset
    /\ AppIdle
    /\ ClassifyIdle
    /\ ExportIdle
    /\ DbIdle

InitEngine == EngineCall({supportStrategies})

GenerateRecommendations ==
    /\ scenario = "engine"
    /\ recommendations = Unset
    /\ recommendations' = generateRecommendations(metrics)
    /\ UNCHANGED <<scenario, metrics, shareName, shareUrl, search, parsed, appParsed,
                   strategies>>
    /\ UNCHANGED <<appVars, classVars, exportVars, dbVars>>

NextEngine == GenerateRecommendations

\* The engine on the static table.
SpecEngine == InitEngine /\ [][NextEngine]_vars

\* The engine on the static table and on the tables that repeat a text.
InitEngineRepeats == EngineCall({supportStrategies} \cup RepeatedTextTables)

SpecEngineRepeats == InitEngineRepeats /\ [][NextEngine]_vars

\* What the codec and engine variables hold in a run of the classifiers.
CodecIdle ==
    /\ metrics = DefaultProfile
    /\ shareName = Undefined
    /\ shareUrl = Null
    /\ search = Null
    /\ parsed = Unset
    /\ appParsed = Unset
    /\ strategies = supportStrategies
    /\ recommendations = Unset

\* How far outside 0..5 the numbers handed to isValidMetricScore go.
MaxOutside == 2

\* Numbers handed to isValidMetricScore: the integers from -MaxOutside to
\* 5 + MaxOutside, the halves between them, NaN and the infinities.
NumberInputs ==
    {Number(n) : n \in (0 - MaxOutside)..(MAX_METRIC_SCORE + MaxOutside)}
        \cup {Fraction(2 * n + 1, 2) :
                  n \in (0 - MaxOutside - 1)..(MAX_METRIC_SCORE + MaxOutside)}
        \cup {NaN, Infinity, NegInfinity}

\* A classifier or a renderer that has not been called: its results are
\* strings, and none of them holds the line feed this one ends with.
NotCalled == "not called\n"

\* A score and a number, with no classifier called yet.
InitClassify ==
    /\ scenario = "classify"
    /\ CodecIdle
    /\ AppIdle
    /\ ExportIdle
    /\ DbIdle
    /\ givenScore \in Scores
    /\ classified = [supportInfo |-> Unset, supportLevelLabel |-> NotCalled,
                     supportLevel |-> NotCalled, intensityLabel |-> NotCalled,
                     scoreColor |-> NotCalled, csvSupportLevel |-> NotCalled,
                     scoreLevel |-> NotCalled]
    /\ givenValue \in NumberInputs
    /\ valid = Unset

GetSupportInfo ==
    /\ scenario = "classify"
    /\ classified.supportInfo = Unset
    /\ classified' = [classified EXCEPT !.supportInfo = getSupportInfo(givenScore)]
    /\ UNCHANGED <<codecVars, appVars, exportVars, dbVars, givenScore, givenValue, valid>>

GetSupportLevelLabel ==
    /\ scenario = "classify"
    /\ classified.supportLevelLabel = NotCalled
    /\ classified' =
           [classified EXCEPT !.supportLevelLabel = getSupportLevelLabel(givenScore)]
    /\ UNCHANGED <<codecVars, appVars, exportVars, dbVars, givenScore, givenValue, valid>>

GetSupportLevel ==
    /\ scenario = "classify"
    /\ classified.supportLevel = NotCalled
    /\ classified' = [classified EXCEPT !.supportLevel = getSupportLevel(givenScore)]
    /\ UNCHANGED <<codecVars, appVars, exportVars, dbVars, givenScore, givenValue, valid>>

GetIntensityLabel ==
    /\ scenario = "classify"
    /\ classified.intensityLabel = NotCalled
    /\ classified' = [classified EXCEPT !.intensityLabel = getIntensityLabel(givenScore)]
    /\ UNCHANGED <<codecVars, appVars, exportVars, dbVars, givenScore, givenValue, valid>>

GetScoreColor ==
    /\ scenario = "classify"
    /\ classified.scoreColor = NotCalled
    /\ classified' = [classified EXCEPT !.scoreColor = getScoreColor(givenScore)]
    /\ UNCHANGED <<codecVars, appVars, exportVars, dbVars, givenScore, givenValue, valid>>

SharingGetSupportLevel ==
    /\ scenario = "classify"
    /\ classified.csvSupportLevel = NotCalled
    /\ classified' =
           [classified EXCEPT !.csvSupportLevel = sharing_getSupportLevel(givenScore)]
    /\ UNCHANGED <<codecVars, appVars, exportVars, dbVars, givenScore, givenValue, valid>>

GetScoreLevel ==
    /\ scenario = "classify"
    /\ classified.scoreLevel = NotCalled
    /\ classified' = [classified EXCEPT !.scoreLevel = getScoreLevel(givenScore)]
    /\ UNCHANGED <<codecVars, appVars, exportVars, dbVars, givenScore, givenValue, valid>>

IsValidMetricScore ==
    /\ scenario = "classify"
    /\ valid = Unset
    /\ valid' = [kind |-> "boolean", value |-> isValidMetricScore(givenValue)]
    /\ UNCHANGED <<codecVars, appVars, exportVars, dbVars, givenScore, classified, givenValue>>

NextClassify ==
    \/ GetSupportInfo
    \/ GetSupportLevelLabel
    \/ GetSupportLevel
    \/ GetIntensityLabel
    \/ GetScoreColor
    \/ SharingGetSupportLevel
    \/ GetScoreLevel
    \/ IsValidMetricScore

\* The classifiers of lib/metrics.ts, lib/sharing.ts and the engine.
SpecClassify == InitClassify /\ [][NextClassify]_vars

(***************************************************************************)
(* The App component (App.tsx) with its MetricSlider and ViewingMode       *)
(* children.  A handler and the render that commits its state updates are  *)
(* one step; the recommendations effect, which React runs after the        *)
(* commit, is a step of its own.  The flags copied and hasAnimatedShare    *)
(* and the isActive flag of a slider only style the page and are left out. *)
(***************************************************************************)

\* Most user events handled in one session.
MaxEvents == 2

\* getInitialMetrics(): the loop over METRIC_NAMES.
RECURSIVE FillDefaults(_, _)
FillDefaults(names, initial) ==
    IF names = <<>> THEN initial
    ELSE FillDefaults(Tail(names), ObjSet(initial, Head(names), DEFAULT_METRIC_SCORE))

getInitialMetrics == FillDefaults(METRIC_NAMES, <<>>)

\* The keys of data/allSettingValues.json, one slider each: the six metrics.
SliderCategories == MetricNameSet

\* if (urlData.name): null and the empty string are falsy.
Truthy(name) == name # Null /\ name # <<>>

\* The updater of handleMetricChange, prev => ({ ...prev, [metricName]:
\* newScore }), applied to the state prev that React hands it.  rendered is
\* the profile of the render the handler belongs to, which the updater does
\* not read.
handleMetricChangeFromRendered(rendered, prev, metricName, newScore) ==
    ObjSet(rendered, metricName, newScore)

handleMetricChange(rendered, prev, metricName, newScore) ==
    ObjSet(prev, metricName, newScore)

\* MetricSlider.handleKeyDown: the value a key leads to from currentValue.
Min(a, b) == IF a <= b THEN a ELSE b
Max(a, b) == IF a >= b THEN a ELSE b

\* The arrow and page keys without Math.min and Math.max.
KeyDownValueUnclamped(key, currentValue) ==
    CASE key \in {"ArrowUp", "ArrowRight"} -> currentValue + 1
      [] key \in {"ArrowDown", "ArrowLeft"} -> currentValue - 1
      [] key = "Home" -> 0
      [] key = "End" -> MAX_METRIC_SCORE
      [] key = "PageUp" -> currentValue + 1
      [] key = "PageDown" -> currentValue - 1
      [] OTHER -> currentValue

KeyDownValue(key, currentValue) ==
    CASE key \in {"ArrowUp", "ArrowRight"} -> Min(MAX_METRIC_SCORE, currentValue + 1)
      [] key \in {"ArrowDown", "ArrowLeft"} -> Max(0, currentValue - 1)
      [] key = "Home" -> 0
      [] key = "End" -> MAX_METRIC_SCORE
      [] key = "PageUp" -> Min(MAX_METRIC_SCORE, currentValue + 1)
      [] key = "PageDown" -> Max(0, currentValue - 1)
      [] OTHER -> currentValue

\* MetricSlider.handlePreset
PresetValue(preset) ==
    CASE preset = "low" -> 1
      [] preset = "medium" -> 2
      [] preset = "high" -> 4

\* ViewingMode: the strategies of both lists, one entry for each text.
allStrategies(recs) ==
    MapValues(AddStrategies(AddStrategies(<<>>, recs.parent), recs.teacher))

\* str.replace(/[<>]/g, ''): every '<' and '>' is dropped.
ReplaceAngleBrackets(str) == SelectSeq(str, LAMBDA c : c \notin {"<", ">"})

\* str.replace(/[<>]/, ''), without the g flag: only the first match is dropped.
ReplaceFirstAngleBracket(str) ==
    IF \A i \in 1..Len(str) : str[i] \notin {"<", ">"} THEN str
    ELSE LET at == CHOOSE i \in 1..Len(str) :
                       /\ str[i] \in {"<", ">"}
                       /\ \A j \in 1..(i - 1) : str[j] \notin {"<", ">"}
         IN  SubSeq(str, 1, at - 1) \o SubSeq(str, at + 1, Len(str))

ThisPerson == <<"T", "h", "i", "s", " ", "P", "e", "r", "s", "o", "n">>

\* displayName with the replace applied once.
displayNameReplaceFirst(profileName) ==
    IF Truthy(profileName)
    THEN ReplaceFirstAngleBracket(Slice(profileName, 0, 50))
    ELSE ThisPerson

\* ViewingMode: the name of the header.
displayName(profileName) ==
    IF Truthy(profileName)
    THEN ReplaceAngleBrackets(Slice(profileName, 0, 50))
    ELSE ThisPerson

\* ViewingMode: the text of the h1 of the header, the name and "'s" before
\* the title when profileName is truthy.
NamedProfileTitle ==
    <<"'", "s", " ", "N", "e", "u", "r", "o", "d", "i", "v", "e", "r", "s",
      "i", "t", "y", " ", "P", "r", "o", "f", "i", "l", "e">>

SharedProfileTitle ==
    <<"S", "h", "a", "r", "e", "d", " ", "N", "e", "u", "r", "o", "d", "i",
      "v", "e", "r", "s", "i", "t", "y", " ", "P", "r", "o", "f", "i", "l",
      "e">>

headerTitle(profileName) ==
    IF Truthy(profileName)
    THEN displayName(profileName) \o NamedProfileTitle
    ELSE SharedProfileTitle

\* App: the expression of the name in the shared banner of the edit view,
\* sharedName.slice(0, 50).replace(/[<>]/g, '').
bannerName(name) == ReplaceAngleBrackets(Slice(name, 0, 50))


\* ViewingMode state at mount.
ViewingModeInitial ==
    [showSourceInfo |-> FALSE, visibleTooltip |-> NullResult, activeResourceTab |-> Null]

\* Keys pressed on a slider, one of them not handled.
Keys == {"ArrowUp", "ArrowRight", "ArrowDown", "ArrowLeft", "Home", "End",
         "PageUp", "PageDown", "Tab"}
Presets == {"low", "medium", "high"}

\* Names typed into the share form.
ShareNameInputs ==
    {<<>>, <<"A">>, <<" ">>, <<"A", " ">>, <<"u", "n", "d", "e", "f", "i", "n", "e", "d">>,
     <<"U+00E9", "U+3000">>}

\* Scores of two adjustments made before one render: both ends of the range,
\* neither of them the default.
BatchScores == {0, MAX_METRIC_SCORE}

\* Strategy badges that are clicked.
TooltipIndexes == {0, 1}

AppLoads ==
    {<<>>,
     <<"?", "x", "=", "1", "&", "n", "a", "m", "e", "=", "A", "&", "f", "=", "6">>,
     <<"?", "f", "=", "0">>,
     <<"?", "f", "=", "3", "a">>,
     <<"?", "f", "=", "-", "1", "&", "s", "i", "=", "5">>,
     <<"?", "n", "a", "m", "e", "=", "A", "&", "m", "s", "=", "4", "&", "e", "r", "=", "2", ".", "5">>,
     <<"?", "n", "a", "m", "e", "=", "&", "r", "p", "=", "1">>,
     <<"?", "s", "s", "=", "0", "&", "s", "s", "=", "5", "&", "n", "a", "m", "e", "=", "A", "+", "B">>,
     <<"?", "e", "r", "=", "5", "&", "f", "=", "5", "&", "s", "i", "=", "5", "&", "s", "s", "=", "5", "&", "m", "s", "=", "5", "&", "r", "p", "=", "5">>,
     <<"?", "n", "a", "m", "e", "=", "n", "u", "l", "l", "&", "f", "=", "%", "0", "9", "3">>,
     LocationSearch(generateShareUrl(ExampleProfile, <<"A", " ">>)),
     LocationSearch(generateShareUrl(Profile(<<0, 0, 0, 0, 0, 0>>), Undefined))}

\* The App component is mounted: in a run of the app, and in a run of the
\* display for a page load with a query string (the other runs of the display
\* render ViewingMode on its own, with the props a test hands it).
AppMounted == scenario = "app" \/ (scenario = "display" /\ search # Null)

\* The first render: the initial values of the useState calls.
InitApp ==
    /\ scenario = "app"
    /\ isReady = FALSE
    /\ isViewingMode = FALSE
    /\ metrics = getInitialMetrics
    /\ recommendations = NullResult
    /\ showPlaintext = FALSE
    /\ shareName = <<>>
    /\ currentView = "edit"
    /\ legalPage = Null
    /\ sharedName = Null
    /\ shareUrl = generateShareUrl(getInitialMetrics, <<>>)
    /\ search \in AppLoads
    /\ parsed = Unset
    /\ appParsed = Unset
    /\ strategies = supportStrategies
    /\ viewing = Unset
    /\ effectPending = FALSE
    /\ events = 0
    /\ ClassifyIdle
    /\ ExportIdle
    /\ DbIdle

\* initializeApp with setIsViewingMode(true) outside the if (urlData).
InitializeAppAlwaysViewing ==
    /\ scenario = "app"
    /\ ~isReady
    /\ LET urlData == AppParseUrlMetrics(search)
           found == urlData # NullResult
       IN  /\ appParsed' = urlData
           /\ metrics' = IF found THEN ObjSpread(metrics, urlData.metrics) ELSE metrics
           /\ sharedName' = IF found /\ Truthy(urlData.name) THEN urlData.name
                            ELSE sharedName
           /\ search' = IF found THEN <<>> ELSE search
           /\ effectPending' = found
    /\ isViewingMode' = TRUE
    /\ viewing' = ViewingModeInitial
    /\ isReady' = TRUE
    /\ recommendations' = generateRecommendations(metrics)
    /\ shareUrl' = generateShareUrl(metrics', shareName)
    /\ UNCHANGED <<scenario, shareName, parsed, strategies, currentView, legalPage,
                   showPlaintext, events, classVars, exportVars, dbVars>>

\* The mount effects and the render they cause: initializeApp, which has no
\* await and so runs to its end, then the recommendations effect on the
\* profile of the first render.  The page shows "Loading app..." until then.
InitializeApp ==
    /\ AppMounted
    /\ ~isReady
    /\ LET urlData == AppParseUrlMetrics(search)
           found == urlData # NullResult
       IN  /\ appParsed' = urlData
           /\ metrics' = IF found THEN ObjSpread(metrics, urlData.metrics) ELSE metrics
           /\ sharedName' = IF found /\ Truthy(urlData.name) THEN urlData.name
                            ELSE sharedName
           /\ isViewingMode' = IF found THEN TRUE ELSE isViewingMode
           /\ search' = IF found THEN <<>> ELSE search
           /\ viewing' = IF found THEN ViewingModeInitial ELSE viewing
           /\ effectPending' = found
    /\ isReady' = TRUE
    /\ recommendations' = generateRecommendations(metrics)
    /\ shareUrl' = generateShareUrl(metrics', shareName)
    /\ UNCHANGED <<scenario, shareName, parsed, strategies, currentView, legalPage,
                   showPlaintext, events, classVars, exportVars, dbVars>>

\* useEffect(() => setRecommendations(generateRecommendations(metrics)),
\* [metrics]): runs after a render in which the profile object changed.
RecommendationsEffect ==
    /\ AppMounted
    /\ effectPending
    /\ recommendations' = generateRecommendations(metrics)
    /\ effectPending' = FALSE
    /\ UNCHANGED <<scenario, metrics, shareName, shareUrl, search, parsed, appParsed,
                   strategies, isReady, isViewingMode, sharedName, currentView,
                   legalPage, showPlaintext, viewing, events, classVars, exportVars, dbVars>>

\* What the page shows.
ShowsViewingMode == scenario = "app" /\ isReady /\ isViewingMode
ShowsLegalPage == scenario = "app" /\ isReady /\ ~isViewingMode /\ legalPage # Null
ShowsEditor == scenario = "app" /\ isReady /\ ~isViewingMode /\ legalPage = Null
ShowsEditView == ShowsEditor /\ currentView = "edit"
ShowsShareView == ShowsEditor /\ currentView = "share"

\* The same render with the recommendations effect not scheduled, as with an
\* empty dependency array.
CommitMetricsNoEffect(next, handled) ==
    /\ metrics' = next
    /\ shareUrl' = generateShareUrl(next, shareName)
    /\ effectPending' = effectPending
    /\ events' = events + handled
    /\ UNCHANGED <<scenario, shareName, search, parsed, appParsed, strategies,
                   recommendations, isReady, isViewingMode, sharedName, currentView,
                   legalPage, showPlaintext, viewing, classVars, exportVars, dbVars>>

\* A render after one or more calls of setMetrics: the profile is replaced,
\* the share URL is derived again and the recommendations effect is scheduled.
CommitMetrics(next, handled) ==
    /\ metrics' = next
    /\ shareUrl' = generateShareUrl(next, shareName)
    /\ effectPending' = TRUE
    /\ events' = events + handled
    /\ UNCHANGED <<scenario, shareName, search, parsed, appParsed, strategies,
                   recommendations, isReady, isViewingMode, sharedName, currentView,
                   legalPage, showPlaintext, viewing, classVars, exportVars, dbVars>>

\* A render after a handler that leaves the profile alone.
OtherUnchanged ==
    UNCHANGED <<scenario, metrics, search, parsed, appParsed, strategies,
                recommendations, isReady, effectPending, classVars, exportVars, dbVars>>

\* MetricSlider.handleChange: the range input (min 0, max 5, step 1) moved.
HandleChange(category, newValue) ==
    /\ ShowsEditView
    /\ events < MaxEvents
    /\ CommitMetrics(handleMetricChange(metrics, metrics, category, newValue), 1)

\* handleKeyDown without the if (newValue !== currentValue) around onChange.
HandleKeyDownAlwaysChanges(category, key) ==
    /\ ShowsEditView
    /\ events < MaxEvents
    /\ LET currentValue == ObjGet(metrics, category)
           newValue == KeyDownValue(key, currentValue)
       IN  CommitMetrics(handleMetricChange(metrics, metrics, category, newValue), 1)


\* MetricSlider.handleKeyDown: onChange only when the value changes.
HandleKeyDown(category, key) ==
    /\ ShowsEditView
    /\ events < MaxEvents
    /\ LET currentValue == ObjGet(metrics, category)
           newValue == KeyDownValue(key, currentValue)
       IN  IF newValue # currentValue
           THEN CommitMetrics(handleMetricChange(metrics, metrics, category, newValue), 1)
           ELSE /\ events' = events + 1
                /\ UNCHANGED <<codecVars, isReady, isViewingMode, sharedName,
                               currentView, legalPage, showPlaintext, viewing,
                               effectPending, classVars, exportVars, dbVars>>

\* MetricSlider.handlePreset
HandlePreset(category, preset) ==
    /\ ShowsEditView
    /\ events < MaxEvents
    /\ CommitMetrics(handleMetricChange(metrics, metrics, category, PresetValue(preset)), 1)

\* MetricSlider.handleReset
HandleReset(category) ==
    /\ ShowsEditView
    /\ events < MaxEvents
    /\ CommitMetrics(handleMetricChange(metrics, metrics, category, DEFAULT_METRIC_SCORE), 1)

\* Two calls of handleMetricChange before the next render: React runs the
\* second updater on the result of the first.
HandleMetricChangeTwice(first, firstScore, second, secondScore) ==
    /\ ShowsEditView
    /\ events + 2 <= MaxEvents
    /\ CommitMetrics(
           handleMetricChange(metrics,
               handleMetricChange(metrics, metrics, first, firstScore),
               second, secondScore), 2)

\* handleResetAll
HandleResetAll ==
    /\ ShowsEditView
    /\ events < MaxEvents
    /\ CommitMetrics(FillDefaults(METRIC_NAMES, <<>>), 1)

\* handleSwitchToEditor without setMetrics(getInitialMetrics()).
HandleSwitchToEditorKeepsProfile ==
    /\ ShowsViewingMode
    /\ events < MaxEvents
    /\ isViewingMode' = FALSE
    /\ sharedName' = Null
    /\ viewing' = Unset
    /\ events' = events + 1
    /\ UNCHANGED <<scenario, metrics, shareName, shareUrl, search, parsed, appParsed,
                   strategies, recommendations, isReady, effectPending, currentView,
                   legalPage, showPlaintext, classVars, exportVars, dbVars>>

\* handleSwitchToEditor without setSharedName(null).
HandleSwitchToEditorKeepsName ==
    /\ ShowsViewingMode
    /\ events < MaxEvents
    /\ isViewingMode' = FALSE
    /\ sharedName' = sharedName
    /\ metrics' = getInitialMetrics
    /\ shareUrl' = generateShareUrl(getInitialMetrics, shareName)
    /\ effectPending' = TRUE
    /\ viewing' = Unset
    /\ events' = events + 1
    /\ UNCHANGED <<scenario, shareName, search, parsed, appParsed, strategies,
                   recommendations, isReady, currentView, legalPage, showPlaintext,
                   classVars, exportVars, dbVars>>


\* handleSwitchToEditor, the onCreateOwn of ViewingMode, which unmounts.
HandleSwitchToEditor ==
    /\ ShowsViewingMode
    /\ events < MaxEvents
    /\ isViewingMode' = FALSE
    /\ sharedName' = Null
    /\ metrics' = getInitialMetrics
    /\ shareUrl' = generateShareUrl(getInitialMetrics, shareName)
    /\ effectPending' = TRUE
    /\ viewing' = Unset
    /\ events' = events + 1
    /\ UNCHANGED <<scenario, shareName, search, parsed, appParsed, strategies,
                   recommendations, isReady, currentView, legalPage, showPlaintext,
                   classVars, exportVars, dbVars>>

\* "Ready to share your profile?" and "Edit your profile"
SetCurrentView(view) ==
    /\ \/ ShowsEditView /\ view = "share"
       \/ ShowsShareView /\ view = "edit"
    /\ events < MaxEvents
    /\ currentView' = view
    /\ events' = events + 1
    /\ OtherUnchanged
    /\ UNCHANGED <<shareName, shareUrl, isViewingMode, sharedName, legalPage,
                   showPlaintext, viewing>>

\* The name input with the share URL memoised on the profile alone.
SetShareNameStaleUrl(name) ==
    /\ ShowsShareView
    /\ events < MaxEvents
    /\ shareName' = name
    /\ shareUrl' = shareUrl
    /\ events' = events + 1
    /\ OtherUnchanged
    /\ UNCHANGED <<isViewingMode, sharedName, currentView, legalPage, showPlaintext,
                   viewing>>


\* The name input of the share view.
SetShareName(name) ==
    /\ ShowsShareView
    /\ events < MaxEvents
    /\ shareName' = name
    /\ shareUrl' = generateShareUrl(metrics, name)
    /\ events' = events + 1
    /\ OtherUnchanged
    /\ UNCHANGED <<isViewingMode, sharedName, currentView, legalPage, showPlaintext,
                   viewing>>

\* "View as Plain Text"
TogglePlaintext ==
    /\ ShowsShareView
    /\ events < MaxEvents
    /\ showPlaintext' = ~showPlaintext
    /\ events' = events + 1
    /\ OtherUnchanged
    /\ UNCHANGED <<shareName, shareUrl, isViewingMode, sharedName, currentView,
                   legalPage, viewing>>

\* The footer links, and onBack of a legal page.
SetLegalPage(page) ==
    /\ \/ ShowsEditor /\ page \in {"privacy", "terms"}
       \/ ShowsLegalPage /\ page = Null
    /\ events < MaxEvents
    /\ legalPage' = page
    /\ events' = events + 1
    /\ OtherUnchanged
    /\ UNCHANGED <<shareName, shareUrl, isViewingMode, sharedName, currentView,
                   showPlaintext, viewing>>

\* A render of ViewingMode after one of its own handlers.
ViewingModeSet(next) ==
    /\ ShowsViewingMode
    /\ events < MaxEvents
    /\ viewing' = next
    /\ events' = events + 1
    /\ OtherUnchanged
    /\ UNCHANGED <<shareName, shareUrl, isViewingMode, sharedName, currentView,
                   legalPage, showPlaintext>>

\* ViewingMode: the "Sources" button.
ToggleSourceInfo ==
    /\ viewing # Unset
    /\ ViewingModeSet([viewing EXCEPT !.showSourceInfo = ~viewing.showSourceInfo])

\* ViewingMode: the source badge of strategy idx.
ToggleTooltip(idx) ==
    /\ viewing # Unset
    /\ idx < Len(allStrategies(generateRecommendations(metrics)))
    /\ ViewingModeSet([viewing EXCEPT !.visibleTooltip =
           IF viewing.visibleTooltip = Number(idx) THEN NullResult ELSE Number(idx)])

\* ViewingMode: a resource tab.
ToggleResourceTab(tab) ==
    /\ viewing # Unset
    /\ ViewingModeSet([viewing EXCEPT !.activeResourceTab =
           IF viewing.activeResourceTab = tab THEN Null ELSE tab])

\* ViewingMode: window.print()
PrintProfile ==
    /\ viewing # Unset
    /\ ViewingModeSet(viewing)

NextApp ==
    \/ InitializeApp
    \/ RecommendationsEffect
    \/ \E category \in SliderCategories, newValue \in Scores :
           HandleChange(category, newValue)
    \/ \E category \in SliderCategories, key \in Keys : HandleKeyDown(category, key)
    \/ \E category \in SliderCategories, preset \in Presets :
           HandlePreset(category, preset)
    \/ \E category \in SliderCategories : HandleReset(category)
    \/ \E first \in SliderCategories, firstScore \in BatchScores,
          second \in SliderCategories, secondScore \in BatchScores :
           HandleMetricChangeTwice(first, firstScore, second, secondScore)
    \/ HandleResetAll
    \/ HandleSwitchToEditor
    \/ \E view \in {"edit", "share"} : SetCurrentView(view)
    \/ \E name \in ShareNameInputs : SetShareName(name)
    \/ TogglePlaintext
    \/ \E page \in {"privacy", "terms", Null} : SetLegalPage(page)
    \/ ToggleSourceInfo
    \/ \E idx \in TooltipIndexes : ToggleTooltip(idx)
    \/ \E tab \in {"parent", "teacher"} : ToggleResourceTab(tab)
    \/ PrintProfile

\* A session of the app from page load.
SpecApp == InitApp /\ [][NextApp]_vars


(***************************************************************************)
(* The shared name on display: the header of ViewingMode and the banner of *)
(* the edit view, for names that arrive in a query string and for names    *)
(* handed to the component.                                                *)
(***************************************************************************)

MaxMarkupLen == 2

MarkupChars == {"a", "<", ">"}

\* Short names with angle brackets in every position.
ShortMarkup == UNION {StringsOfLen(MarkupChars, n) : n \in 0..MaxMarkupLen}

\* Lengths that put the end of a name on either side of the 50th character.
PadLengths == {0} \cup 46..51

Padding(n) == [i \in 1..n |-> "b"]

\* Names handed to ViewingMode as profileName: null, and names up to and over
\* 50 characters with angle brackets before and after the 50th.
ProfileNames ==
    {prefix \o Padding(n) \o suffix :
        prefix \in ShortMarkup, n \in PadLengths,
        suffix \in {<<>>, <<"<">>, <<">", "c">>}}

\* Query strings that carry a name next to one valid key: the short names,
\* the name "null", and an escaped name of one character in two bytes and a
\* byte that is no character.
NamedQueries ==
    {<<"?", "r", "p", "=", "3", "&", "n", "a", "m", "e", "=">> \o FormEncode(name) :
        name \in ShortMarkup \cup {<<"n", "u", "l", "l">>}}
    \cup {<<"?", "r", "p", "=", "3", "&", "n", "a", "m", "e", "=",
            "%", "C", "3", "%", "A", "9", "<", "%", "A", "9">>}

\* Nothing is rendered yet.
NothingShown == [profileName |-> Null, header |-> NotCalled, banner |-> NotCalled]

\* Either the App is loaded with a query string that carries a name, in the
\* state of its first render, or ViewingMode is rendered on its own with a
\* profileName handed to it.
InitDisplay ==
    /\ scenario = "display"
    /\ parsed = Unset
    /\ appParsed = Unset
    /\ strategies = supportStrategies
    /\ AppIdle
    /\ ClassifyIdle
    /\ \/ /\ search \in NamedQueries
          /\ metrics = getInitialMetrics
          /\ shareName = <<>>
          /\ shareUrl = generateShareUrl(getInitialMetrics, <<>>)
          /\ recommendations = NullResult
          /\ shown = NothingShown
       \/ /\ search = Null
          /\ metrics = DefaultProfile
          /\ shareName = Undefined
          /\ shareUrl = Null
          /\ recommendations = Unset
          /\ \/ shown \in {[NothingShown EXCEPT !.profileName = name] :
                              name \in ProfileNames}
             \/ shown = NothingShown
    /\ csvInput = Unset
    /\ csv = Unset
    /\ DbIdle

\* ViewingMode renders its header: under the App when it is ready and in
\* viewing mode, with sharedName as profileName, or on its own.
RenderHeader ==
    /\ scenario = "display"
    /\ search = Null \/ (isReady /\ isViewingMode)
    /\ shown.header = NotCalled
    /\ LET profileName == IF search = Null THEN shown.profileName ELSE sharedName
       IN  shown' = [shown EXCEPT !.profileName = profileName,
                                  !.header = headerTitle(profileName)]
    /\ UNCHANGED <<codecVars, appVars, classVars, csvInput, csv, dbVars>>

\* The expression of the shared banner applied to a name.  The edit view
\* renders the banner under sharedName &&, and no page load or handler leaves
\* the edit view with a shared name, so the name is one handed over directly.
BannerNameOf ==
    /\ scenario = "display"
    /\ search = Null
    /\ Truthy(shown.profileName)
    /\ shown.banner = NotCalled
    /\ shown' = [shown EXCEPT !.banner = bannerName(shown.profileName)]
    /\ UNCHANGED <<codecVars, appVars, classVars, csvInput, csv, dbVars>>

NextDisplay == InitializeApp \/ RecommendationsEffect \/ RenderHeader \/ BannerNameOf

SpecDisplay == InitDisplay /\ [][NextDisplay]_vars


(***************************************************************************)
(* The CSV report (lib/sharing.ts) and the strategy list of ViewingMode.   *)
(* A row is the sequence of the cells its template interpolates; strategy, *)
(* description and resource texts are opaque, and the report is the        *)
(* sequence of the rows that rows.join('\n') joins.                        *)
(***************************************************************************)

MaxResources == 2

\* A cell written between double quotes, and one written as it is.
Quoted(text) == [quoted |-> text]
Bare(text) == [bare |-> text]

\* str.replace(/"/g, '""'): the text with each double quote doubled.
escapeCSV(str) == [doubled |-> str]

TextRow(text) == <<Bare(text)>>
BlankRow == TextRow("")

\* `Generated: ${currentDate}`
GeneratedRow(currentDate) == <<[generated |-> currentDate]>>

\* metricData?.[score]?.description ?? ''
DescriptionOf(settingsData, metricName, score) ==
    IF /\ ObjHas(settingsData, metricName)
       /\ score \in Int
       /\ score + 1 \in 1..Len(ObjGet(settingsData, metricName))
    THEN ObjGet(settingsData, metricName)[score + 1].description
    ELSE ""

\* The loop over Object.entries(metrics).
RECURSIVE MetricRows(_, _)
MetricRows(entries, settingsData) ==
    IF entries = <<>> THEN <<>>
    ELSE LET metricName == Head(entries)[1]
             score == Head(entries)[2]
             description == DescriptionOf(settingsData, metricName, score)
             level == sharing_getSupportLevel(score)
             escapedDesc == escapeCSV(description)
         IN  <<<<Quoted(metricName), Bare(score), Quoted(level), Quoted(escapedDesc)>>>>
                 \o MetricRows(Tail(entries), settingsData)

\* [...parent, ...teacher] with no filter.
sharing_allStrategiesUnfiltered(recs) == recs.parent \o recs.teacher

\* [...parent, ...teacher].filter(s => !seenTexts.has(s.text) && add): the
\* entries whose text no earlier entry has.
sharing_allStrategies(recs) ==
    LET all == recs.parent \o recs.teacher
        kept == {i \in 1..Len(all) : \A j \in 1..(i - 1) : all[j].text # all[i].text}
        nth(n) == CHOOSE i \in kept : Cardinality({j \in kept : j < i}) = n - 1
    IN  [n \in 1..Cardinality(kept) |-> all[nth(n)]]

\* allStrategies.forEach((strategy, idx) => rows.push(`${idx + 1},"..."`))
StrategyRows(list) ==
    [idx \in 1..Len(list) |-> <<Bare(idx), Quoted(escapeCSV(list[idx].text))>>]

\* resources.forEach(resource => rows.push(...))
ResourceRows(resources) ==
    [i \in 1..Len(resources) |->
        <<Quoted(escapeCSV(resources[i].title)), Quoted(resources[i].url),
          Quoted(escapeCSV(resources[i].description))>>]

\* generateCSVContent with the strategies section pushed under
\* if (recommendations) as a whole.
generateCSVContentSectionUnderIf(m, settingsData, recs, parentRes, teacherRes, currentDate) ==
    <<TextRow("My Spectrum Report"), GeneratedRow(currentDate), BlankRow,
      TextRow("=== METRICS ==="), TextRow("Metric,Score,Level,Description")>>
        \o MetricRows(m, settingsData)
        \o <<BlankRow>>
        \o (IF recs # NullResult
            THEN <<TextRow("=== SUPPORT STRATEGIES ===")>>
                     \o StrategyRows(sharing_allStrategies(recs)) \o <<BlankRow>>
            ELSE <<>>)
        \o <<TextRow("=== RESOURCES FOR PARENTS & CAREGIVERS ==="),
             TextRow("Resource,URL,Description")>>
        \o ResourceRows(parentRes)
        \o <<BlankRow, TextRow("=== RESOURCES FOR EDUCATORS ==="),
             TextRow("Resource,URL,Description")>>
        \o ResourceRows(teacherRes)

generateCSVContent(m, settingsData, recs, parentRes, teacherRes, currentDate) ==
    <<TextRow("My Spectrum Report"), GeneratedRow(currentDate), BlankRow,
      TextRow("=== METRICS ==="), TextRow("Metric,Score,Level,Description")>>
        \o MetricRows(m, settingsData)
        \o <<BlankRow, TextRow("=== SUPPORT STRATEGIES ===")>>
        \o (IF recs # NullResult THEN StrategyRows(sharing_allStrategies(recs)) ELSE <<>>)
        \o <<BlankRow, TextRow("=== RESOURCES FOR PARENTS & CAREGIVERS ==="),
             TextRow("Resource,URL,Description")>>
        \o ResourceRows(parentRes)
        \o <<BlankRow, TextRow("=== RESOURCES FOR EDUCATORS ==="),
             TextRow("Resource,URL,Description")>>
        \o ResourceRows(teacherRes)

\* Recommendations handed to generateCSVContent by a caller that built them
\* itself: the lists of the test, which end with the same text, lists that
\* share their first text and one more, and a parent list that repeats a
\* text of its own.
mockRecommendations ==
    [parent |-> <<s("Parent strategy 1", "CHADD"), s("Parent strategy 2", "Understood"),
                  s("Shared strategy", "ASAN")>>,
     teacher |-> <<s("Teacher strategy 1", "CHADD"), s("Teacher strategy 2", "Understood"),
                   s("Shared strategy", "ASAN")>>]

HandMadeRecommendations ==
    {mockRecommendations,
     [parent |-> <<s("Shared strategy", "ASAN"), s("Parent strategy 1", "CHADD")>>,
      teacher |-> <<s("Shared strategy", "CHADD"), s("Teacher strategy 1", "CHADD"),
                    s("Parent strategy 1", "Understood")>>],
     [parent |-> <<s("Parent strategy 1", "CHADD"), s("Parent strategy 1", "CHADD")>>,
      teacher |-> <<>>]}

\* settingsData: no entry for any metric, or six levels for each.
NoSettings == <<>>
AllSettings ==
    [i \in 1..Len(METRIC_NAMES) |->
        <<METRIC_NAMES[i],
          [level \in 1..6 |-> [score |-> level - 1,
                               description |-> <<METRIC_NAMES[i], level - 1>>]]>>]

ResourceList(audience, n) ==
    [i \in 1..n |-> [title |-> <<audience, "title", i>>,
                     url |-> <<audience, "url", i>>,
                     description |-> <<audience, "description", i>>]]

ReportProfiles == UniformProfiles \cup {ExampleProfile}

\* The arguments of generateCSVContent after the profile: recommendations is
\* null (the state of the App before its effect has run), the recommendations
\* of the profile, or lists a caller made.
CsvInputs(m) ==
    [settingsData : {NoSettings, AllSettings},
     recommendations : {NullResult, generateRecommendations(m)}
                           \cup HandMadeRecommendations,
     parentResources : {ResourceList("parent", n) : n \in 0..MaxResources},
     teacherResources : {ResourceList("teacher", n) : n \in 0..MaxResources},
     currentDate : {"10/29/2026"}]

\* A profile, the arguments of the export, and ViewingMode not yet rendered.
InitReport ==
    /\ scenario = "report"
    /\ metrics \in ReportProfiles
    /\ shareName = Undefined
    /\ shareUrl = Null
    /\ search = Null
    /\ parsed = Unset
    /\ appParsed = Unset
    /\ strategies = supportStrategies
    /\ recommendations = Unset
    /\ AppIdle
    /\ ClassifyIdle
    /\ shown = Unset
    /\ csvInput \in CsvInputs(metrics)
    /\ csv = Unset
    /\ DbIdle

\* generateCSVContent applied to the profile and the arguments.
GenerateCSVContent ==
    /\ scenario = "report"
    /\ csv = Unset
    /\ csv' = generateCSVContent(metrics, csvInput.settingsData, csvInput.recommendations,
                                 csvInput.parentResources, csvInput.teacherResources,
                                 csvInput.currentDate)
    /\ UNCHANGED <<codecVars, appVars, classVars, shown, csvInput, dbVars>>

\* ViewingMode renders the profile: its recommendations are
\* generateRecommendations(metrics), and its strategy list is made of them.
RenderStrategies ==
    /\ scenario = "report"
    /\ shown = Unset
    /\ recommendations' = generateRecommendations(metrics)
    /\ shown' = [allStrategies |-> allStrategies(recommendations')]
    /\ UNCHANGED <<scenario, metrics, shareName, shareUrl, search, parsed, appParsed,
                   strategies, appVars, classVars, csvInput, csv, dbVars>>

NextReport == GenerateCSVContent \/ RenderStrategies

SpecReport == InitReport /\ [][NextReport]_vars


(***************************************************************************)
(* The encrypted log store (lib/db.ts) under the App that saves each       *)
(* change (the earlier variant of App.tsx).  handleMetricChange starts     *)
(* saveMetricEncrypted and does not wait for the call started by the       *)
(* previous change, so calls overlap at their awaits.  A call runs from    *)
(* the completion of what it awaits to its next await without              *)
(* interruption.  IndexedDB carries out the requests on one object store   *)
(* in the order they were issued, and the requests to open the database in *)
(* the order they were made.                                               *)
(***************************************************************************)

MaxSaves == 2
MaxReads == 1
NumKeys == 2

\* btoa(...) of crypto.getRandomValues(new Uint8Array(32)): any key.  Keys
\* are only compared with each other, so a new key is one of those generated
\* before or the first that was not.
RandomKeys ==
    {<<"installKey", n>> :
        n \in 1..(IF keysGenerated < NumKeys THEN keysGenerated + 1 ELSE NumKeys)}

\* lib/encryption is an authenticated cipher (XChaCha20-Poly1305): the payload
\* opens under the key it was made with and under no other.
encryptWithKey(key, entry) == [key |-> key, entry |-> entry]
DecryptFails == [threw |-> "decryption failed"]
decryptWithKey(key, payload) == IF payload.key = key THEN payload.entry ELSE DecryptFails

\* The loop of getAllLogs: a record that fails to decrypt is skipped.
RECURSIVE DecryptAll(_, _)
DecryptAll(key, records) ==
    IF records = <<>> THEN <<>>
    ELSE LET decrypted == decryptWithKey(key, Head(records).payload)
         IN  (IF decrypted = DecryptFails THEN <<>> ELSE <<decrypted>>)
                 \o DecryptAll(key, Tail(records))

\* getAllLogs from the completion of its second read on: no result without
\* a key, else the records that decrypt under it.
DecryptedLogs(installKeyB64, allRecords) ==
    IF installKeyB64 = Undefined THEN <<>> ELSE DecryptAll(installKeyB64, allRecords)

\* The sliders that are moved and the scores they are moved to.
SavedMetrics == {"Focus"}
SavedScores == {0, 5}

\* getInitialMetrics of the App that saves: every metric of settingsData
\* starts at 5.
RECURSIVE FillAtFive(_, _)
FillAtFive(names, initial) ==
    IF names = <<>> THEN initial
    ELSE FillAtFive(Tail(names), ObjSet(initial, Head(names), 5))

getInitialMetricsAtFive == FillAtFive(METRIC_NAMES, <<>>)

\* What a call waits for: op is "init" (initializeApp), "save"
\* (saveMetricEncrypted) or "read" (getAllLogs), call its number, and store
\* the object store of an IndexedDB request, "open" for openDB and "sodium"
\* for sodium.ready.
Request(op, call, store) == [op |-> op, call |-> call, store |-> store]

\* The request at position i is the next one on its object store.
IsNextOnStore(i) ==
    /\ i \in 1..Len(requests)
    /\ \A j \in 1..(i - 1) : requests[j].store # requests[i].store

Without(i) == SubSeq(requests, 1, i - 1) \o SubSeq(requests, i + 1, Len(requests))

\* sodium.ready has settled and calls that awaited it have not yet gone on:
\* they do so before anything else happens.
SodiumDraining ==
    /\ sodium # "loading"
    /\ \E i \in 1..Len(requests) : requests[i].store = "sodium"

\* A fresh installation after the first render and its effects: the stores
\* are empty, libsodium is loading, initializeApp has called initDB, which
\* waits for openDB, and the recommendations effect has run.
InitDb ==
    /\ scenario = "db"
    /\ metrics = getInitialMetricsAtFive
    /\ shareName = Undefined
    /\ shareUrl = Null
    /\ search = Null
    /\ parsed = Unset
    /\ appParsed = Unset
    /\ strategies = supportStrategies
    /\ recommendations = generateRecommendations(getInitialMetricsAtFive)
    /\ AppIdle
    /\ ClassifyIdle
    /\ ExportIdle
    /\ installKey = Undefined
    /\ logs = <<>>
    /\ saves = <<>>
    /\ reads = <<>>
    /\ requests = <<Request("init", 0, "open")>>
    /\ keysGenerated = 0
    /\ db = Null
    /\ sodium = "loading"
    /\ sodiumReady = FALSE

DbFrame ==
    UNCHANGED <<scenario, shareName, shareUrl, search, parsed, appParsed, strategies,
                isViewingMode, sharedName, currentView, legalPage, showPlaintext,
                viewing, events, classVars, exportVars>>

\* A call that failed: saveMetricEncrypted and getAllLogs reject (the handler
\* catches it), initializeApp goes through its catch.
Failed == [pc |-> "failed", wait |-> <<>>, flag |-> sodiumReady]

\* A call from the return of initDB on, the database open: initSodium returns
\* at once when _sodiumReady is set or sodium.ready has resolved, throws when
\* it has rejected, and waits while libsodium is loading; then, db being set,
\* initializeApp is done, saveMetricEncrypted issues the db.get of
\* getOrCreateInstallationKey and getAllLogs its db.getAll.
AfterInitDB(op, call) ==
    IF sodiumReady \/ sodium = "ready"
    THEN [pc |-> CASE op = "init" -> "done" [] op = "save" -> "get" [] op = "read" -> "getAll",
          wait |-> CASE op = "init" -> <<>>
                     [] op = "save" -> <<Request(op, call, "meta")>>
                     [] op = "read" -> <<Request(op, call, "logs")>>,
          flag |-> TRUE]
    ELSE IF sodium = "failed" THEN Failed
    ELSE [pc |-> "initSodium", wait |-> <<Request(op, call, "sodium")>>,
          flag |-> sodiumReady]

\* A call from its start on: initDB returns at once when db is set and waits
\* for openDB when it is not.
FromStart(op, call) ==
    IF db = Null
    THEN [pc |-> "initDB", wait |-> <<Request(op, call, "open")>>, flag |-> sodiumReady]
    ELSE AfterInitDB(op, call)

\* The call goes on to where it waits next; initializeApp calls
\* setIsReady(true) at its end and in its catch.
Continue(op, call, to, remaining) ==
    /\ saves' = IF op = "save" THEN [saves EXCEPT ![call].pc = to.pc] ELSE saves
    /\ reads' = IF op = "read" THEN [reads EXCEPT ![call].pc = to.pc] ELSE reads
    /\ isReady' = (isReady \/ (op = "init" /\ to.pc \in {"done", "failed"}))
    /\ requests' = remaining \o to.wait
    /\ sodiumReady' = to.flag

\* openDB resolves: db = await openDB(...), and the call goes on.
OpenDBSucceeds(i) ==
    /\ scenario = "db"
    /\ ~SodiumDraining
    /\ IsNextOnStore(i)
    /\ requests[i].store = "open"
    /\ db' = "open"
    /\ Continue(requests[i].op, requests[i].call,
                AfterInitDB(requests[i].op, requests[i].call), Without(i))
    /\ UNCHANGED <<metrics, recommendations, effectPending, installKey, logs,
                   keysGenerated, sodium>>
    /\ DbFrame

\* openDB rejects: initDB throws.
OpenDBFails(i) ==
    /\ scenario = "db"
    /\ ~SodiumDraining
    /\ IsNextOnStore(i)
    /\ requests[i].store = "open"
    /\ Continue(requests[i].op, requests[i].call, Failed, Without(i))
    /\ UNCHANGED <<metrics, recommendations, effectPending, installKey, logs,
                   keysGenerated, db, sodium>>
    /\ DbFrame

\* libsodium has loaded, or has failed to: sodium.ready settles.
SodiumSettles(outcome) ==
    /\ scenario = "db"
    /\ sodium = "loading"
    /\ sodium' = outcome
    /\ UNCHANGED <<metrics, recommendations, isReady, effectPending, installKey, logs,
                   saves, reads, requests, keysGenerated, db, sodiumReady>>
    /\ DbFrame

\* A call that awaited sodium.ready goes on, in the order the calls began to
\* wait.
SodiumContinues(i) ==
    /\ scenario = "db"
    /\ sodium # "loading"
    /\ IsNextOnStore(i)
    /\ requests[i].store = "sodium"
    /\ Continue(requests[i].op, requests[i].call,
                IF db = Null THEN Failed
                ELSE AfterInitDB(requests[i].op, requests[i].call), Without(i))
    /\ UNCHANGED <<metrics, recommendations, effectPending, installKey, logs,
                   keysGenerated, db, sodium>>
    /\ DbFrame

\* handleMetricChange on a slider of the rendered app: setMetrics, then
\* saveMetricEncrypted({ ...metrics, [metricName]: newScore }) as far as its
\* first wait.  The render of the new profile and the recommendations effect
\* after it belong to the same task: React (createRoot) carries out the
\* update and the effects of an input event before the event is over.
StartSave(metricName, newScore) ==
    /\ scenario = "db"
    /\ isReady
    /\ ~SodiumDraining
    /\ Len(saves) < MaxSaves
    /\ metrics' = handleMetricChange(metrics, metrics, metricName, newScore)
    /\ recommendations' = generateRecommendations(metrics')
    /\ LET to == FromStart("save", Len(saves) + 1)
       IN  /\ saves' = Append(saves, [pc |-> to.pc, installKey |-> Undefined,
                                      metrics |-> ObjSet(metrics, metricName, newScore)])
           /\ requests' = requests \o to.wait
           /\ sodiumReady' = to.flag
    /\ UNCHANGED <<isReady, effectPending, installKey, logs, reads, keysGenerated,
                   db, sodium>>
    /\ DbFrame

\* db.get(STORE_META, 'installKey') completes with a key: the call encrypts
\* its entry and issues db.add.
GetFindsKey(i) ==
    /\ scenario = "db"
    /\ ~SodiumDraining
    /\ IsNextOnStore(i)
    /\ requests[i].op = "save"
    /\ saves[requests[i].call].pc = "get"
    /\ installKey # Undefined
    /\ LET call == requests[i].call
       IN  /\ saves' = [saves EXCEPT ![call].pc = "add", ![call].installKey = installKey]
           /\ requests' = Append(Without(i), Request("save", call, "logs"))
    /\ UNCHANGED <<metrics, recommendations, isReady, effectPending, installKey, logs,
                   reads, keysGenerated, db, sodium, sodiumReady>>
    /\ DbFrame

\* db.get completes with undefined: the call generates a key and issues
\* db.put.
GetFindsNothing(i, randomKey) ==
    /\ scenario = "db"
    /\ ~SodiumDraining
    /\ IsNextOnStore(i)
    /\ requests[i].op = "save"
    /\ saves[requests[i].call].pc = "get"
    /\ installKey = Undefined
    /\ LET call == requests[i].call
       IN  /\ saves' = [saves EXCEPT ![call].pc = "put", ![call].installKey = randomKey]
           /\ requests' = Append(Without(i), Request("save", call, "meta"))
    /\ keysGenerated' = keysGenerated + 1
    /\ UNCHANGED <<metrics, recommendations, isReady, effectPending, installKey, logs,
                   reads, db, sodium, sodiumReady>>
    /\ DbFrame

\* db.put(STORE_META, installKey, 'installKey') completes: the key is
\* stored, whatever was stored before; the call encrypts its entry and
\* issues db.add.
PutCompletes(i) ==
    /\ scenario = "db"
    /\ ~SodiumDraining
    /\ IsNextOnStore(i)
    /\ requests[i].op = "save"
    /\ saves[requests[i].call].pc = "put"
    /\ LET call == requests[i].call
       IN  /\ installKey' = saves[call].installKey
           /\ saves' = [saves EXCEPT ![call].pc = "add"]
           /\ requests' = Append(Without(i), Request("save", call, "logs"))
    /\ UNCHANGED <<metrics, recommendations, isReady, effectPending, logs, reads,
                   keysGenerated, db, sodium, sodiumReady>>
    /\ DbFrame

\* db.add(STORE_LOGS, { payload, synced: false, date }) completes and
\* saveMetricEncrypted returns.
AddCompletes(i) ==
    /\ scenario = "db"
    /\ ~SodiumDraining
    /\ IsNextOnStore(i)
    /\ requests[i].op = "save"
    /\ saves[requests[i].call].pc = "add"
    /\ LET call == requests[i].call
           entry == [metrics |-> saves[call].metrics, encrypted |-> TRUE]
       IN  /\ logs' = Append(logs, [payload |-> encryptWithKey(saves[call].installKey, entry),
                                    synced |-> FALSE])
           /\ saves' = [saves EXCEPT ![call].pc = "done"]
           /\ requests' = Without(i)
    /\ UNCHANGED <<metrics, recommendations, isReady, effectPending, installKey, reads,
                   keysGenerated, db, sodium, sodiumReady>>
    /\ DbFrame

\* getAllLogs is called, and runs as far as its first wait.
StartGetAllLogs ==
    /\ scenario = "db"
    /\ ~SodiumDraining
    /\ Len(reads) < MaxReads
    /\ LET to == FromStart("read", Len(reads) + 1)
       IN  /\ reads' = Append(reads, [pc |-> to.pc, allRecords |-> <<>>,
                                      result |-> NotCalled])
           /\ requests' = requests \o to.wait
           /\ sodiumReady' = to.flag
    /\ UNCHANGED <<metrics, recommendations, isReady, effectPending, installKey, logs,
                   saves, keysGenerated, db, sodium>>
    /\ DbFrame

\* db.getAll(STORE_LOGS) completes with the records stored at that moment,
\* and getAllLogs issues db.get(STORE_META, 'installKey').
GetAllCompletes(i) ==
    /\ scenario = "db"
    /\ ~SodiumDraining
    /\ IsNextOnStore(i)
    /\ requests[i].op = "read"
    /\ reads[requests[i].call].pc = "getAll"
    /\ LET call == requests[i].call
       IN  /\ reads' = [reads EXCEPT ![call].pc = "getKey", ![call].allRecords = logs]
           /\ requests' = Append(Without(i), Request("read", call, "meta"))
    /\ UNCHANGED <<metrics, recommendations, isReady, effectPending, installKey, logs,
                   saves, keysGenerated, db, sodium, sodiumReady>>
    /\ DbFrame

\* db.get(STORE_META, 'installKey') completes with what is stored at that
\* moment, and getAllLogs returns.
GetKeyCompletes(i) ==
    /\ scenario = "db"
    /\ ~SodiumDraining
    /\ IsNextOnStore(i)
    /\ requests[i].op = "read"
    /\ reads[requests[i].call].pc = "getKey"
    /\ LET call == requests[i].call
       IN  /\ reads' = [reads EXCEPT
                           ![call].pc = "done",
                           ![call].result =
                               DecryptedLogs(installKey, reads[call].allRecords)]
           /\ requests' = Without(i)
    /\ UNCHANGED <<metrics, recommendations, isReady, effectPending, installKey, logs,
                   saves, keysGenerated, db, sodium, sodiumReady>>
    /\ DbFrame

NextDb ==
    \/ \E i \in 1..Len(requests) : OpenDBSucceeds(i)
    \/ \E i \in 1..Len(requests) : OpenDBFails(i)
    \/ \E outcome \in {"ready", "failed"} : SodiumSettles(outcome)
    \/ \E i \in 1..Len(requests) : SodiumContinues(i)
    \/ \E metricName \in SavedMetrics, newScore \in SavedScores :
           StartSave(metricName, newScore)
    \/ \E i \in 1..Len(requests) : GetFindsKey(i)
    \/ \E i \in 1..Len(requests), randomKey \in RandomKeys : GetFindsNothing(i, randomKey)
    \/ \E i \in 1..Len(requests) : PutCompletes(i)
    \/ \E i \in 1..Len(requests) : AddCompletes(i)
    \/ StartGetAllLogs
    \/ \E i \in 1..Len(requests) : GetAllCompletes(i)
    \/ \E i \in 1..Len(requests) : GetKeyCompletes(i)

SpecDb == InitDb /\ [][NextDb]_vars

Init ==
    \/ InitCodec
    \/ InitEngine
    \/ InitClassify
    \/ InitApp
    \/ InitDisplay
    \/ InitReport
    \/ InitDb
Next ==
    \/ NextCodec
    \/ NextEngine
    \/ NextClassify
    \/ NextApp
    \/ NextDisplay
    \/ NextReport
    \/ NextDb
Spec == Init /\ [][Next]_vars

(***************************************************************************)
(* Share Codec: claims                                                     *)
(***************************************************************************)

\* The decoder has run on the query of a URL that generateShareUrl produced.
ShareDecoded == scenario = "share" /\ parsed # Unset

NonBlank(name) == name # Undefined /\ Trim(name) # <<>>

\* C1 as stated: decoding the query string of generateShareUrl(profile, name)
\* yields the same six scores, and the same name whenever the name is
\* non-blank.
C1_RoundTripSameName ==
    ShareDecoded =>
        /\ parsed # NullResult
        /\ parsed.metrics = metrics
        /\ (NonBlank(shareName) => parsed.name = shareName)

\* C1, amended: decoding the query string of generateShareUrl(profile, name)
\* yields the same six scores, and whenever the name is non-blank it yields
\* the name with its leading and trailing white space removed.
C1_RoundTrip ==
    ShareDecoded =>
        /\ parsed # NullResult
        /\ parsed.metrics = metrics
        /\ (NonBlank(shareName) => parsed.name = Trim(shareName))

\* A name with reserved characters and white space around it went through
\* the round trip of a profile that is not uniform.
C1_Witness ==
    /\ ShareDecoded
    /\ parsed # NullResult
    /\ metrics = ExampleProfile
    /\ NonBlank(shareName)
    /\ Trim(shareName) # shareName
    /\ \E i \in 1..Len(shareName) : shareName[i] \in {"&", "=", "+", "%"}
    /\ parsed.name = Trim(shareName)

\* The value the decoders read for a short key: the first parameter of that
\* name in the query string, or null.
ValueOfKey(key) == ParamsGet(URLSearchParams(search), key)

\* The text is an integer in decimal notation: an optional sign and one or
\* more digits, white space around it aside.
IsIntegerText(text) ==
    LET t == Trim(text)
        body == IF t # <<>> /\ Head(t) \in {"-", "+"} THEN Tail(t) ELSE t
    IN  body # <<>> /\ \A i \in 1..Len(body) : IsDigit(body[i])

\* The integer an integer text denotes.
IntegerOfText(text) ==
    LET t == Trim(text)
        body == IF Head(t) \in {"-", "+"} THEN Tail(t) ELSE t
    IN  IF Head(t) = "-" THEN 0 - DigitsValue(body, 0) ELSE DigitsValue(body, 0)

\* The text of a valid score: an integer text whose integer is in 0..5.
IsValidScoreText(text) ==
    IsIntegerText(text) /\ IntegerOfText(text) >= 0 /\ IntegerOfText(text) <= MAX_METRIC_SCORE

\* The decoded result holds a score for the metric.
Accepted(result, metricName) == result # NullResult /\ ObjHas(result.metrics, metricName)

\* C2: a short key's value enters the decoded profile only if its text is an
\* integer in 0..5; a decimal, a number followed by other characters, an
\* empty or non-numeric text is dropped, never coerced into a score.
C2_OnlyIntegerTextsAccepted ==
    (scenario = "load" /\ appParsed # Unset) =>
        \A i \in 1..Len(KEY_METRIC_MAP) :
            LET key == KEY_METRIC_MAP[i][1]
                metricName == KEY_METRIC_MAP[i][2]
            IN  (Accepted(appParsed, metricName) \/ Accepted(parsed, metricName))
                    => (ValueOfKey(key) # Null /\ IsValidScoreText(ValueOfKey(key)))

C4_NullIffNoValidKey ==
    (scenario = "load" /\ parsed # Unset) =>
        ((parsed = NullResult) <=>
            ~\E i \in 1..Len(KEY_METRIC_MAP) :
                 LET value == ValueOfKey(KEY_METRIC_MAP[i][1])
                 IN  value # Null /\ IsValidScoreText(value))

(***************************************************************************)
(* Recommendation Engine: claims                                           *)
(***************************************************************************)

\* The engine has returned for a profile (an object, empty or not).
Generated == scenario = "engine" /\ recommendations # Unset
GeneratedForProfile == Generated /\ metrics # Null /\ metrics # Undefined

Audiences == {"parent", "teacher"}
Levels == {"highNeed", "moderate", "independent"}

ScoreOf(k) == ObjGet(metrics, k)
PositionOf(k) == CHOOSE i \in 1..Len(metrics) : metrics[i][1] = k

\* The band of a score: 0-1, 2-3, 4-5.
LevelOfScore(score) ==
    CASE score \in {0, 1} -> "highNeed"
      [] score \in {2, 3} -> "moderate"
      [] score \in {4, 5} -> "independent"

\* Metric j has priority over metric k: a lower score, or the same score and
\* an earlier place in the profile's key order.
HasPriority(j, k) ==
    \/ ScoreOf(j) < ScoreOf(k)
    \/ ScoreOf(j) = ScoreOf(k) /\ PositionOf(j) < PositionOf(k)

\* How many metrics of the profile have priority over k.
RankOf(k) == Cardinality({j \in KeySet(metrics) : HasPriority(j, k)})

\* The three metrics of highest priority (all of them when there are fewer).
Selected == {k \in KeySet(metrics) : RankOf(k) < 3}

\* The list returned for an audience.
ListOf(audience) == recommendations[audience]

\* The bucket (metric, audience, level of the metric's own score).
BucketOf(k, audience) == strategies[k][audience][LevelOfScore(ScoreOf(k))]

\* The metrics whose buckets, at any level, hold an entry of the list.
DrawnFrom(audience) ==
    {k \in MetricNameSet :
        \E level \in Levels :
            \E i \in 1..Len(strategies[k][audience][level]) :
                \E j \in 1..Len(ListOf(audience)) :
                    ListOf(audience)[j] = strategies[k][audience][level][i]}

\* C5: the strategies are drawn from exactly the min(3, n) metrics of lowest
\* score, equal scores taken in the profile's key order.
C5_ThreeLowestByKeyOrder ==
    GeneratedForProfile =>
        \A audience \in Audiences : DrawnFrom(audience) = Selected

\* Every score is equal, and the first three metrics in key order were drawn
\* from.
C5_Witness ==
    /\ GeneratedForProfile
    /\ metrics = DefaultProfile
    /\ DrawnFrom("parent") = {"Focus", "Social Interaction", "Sensory Sensitivity"}
    /\ Cardinality(Selected) = 3

\* C6: within the parent list, and within the teacher list, no two entries
\* have the same text.
C6_NoRepeatedText ==
    Generated =>
        \A audience \in Audiences :
            \A i, j \in 1..Len(ListOf(audience)) :
                ListOf(audience)[i].text = ListOf(audience)[j].text => i = j

\* The first two entries of the bucket of a selected metric, with the place
\* (priority rank, index in the bucket) where the engine meets each.
Candidates(audience) ==
    LET selected == Selected
    IN  UNION {LET rank == RankOf(k)
                   bucket == BucketOf(k, audience)
               IN  {[rank |-> rank, index |-> i, strategy |-> bucket[i]] : i \in 1..2} :
                   k \in selected}

Earlier(c, d) == c.rank < d.rank \/ (c.rank = d.rank /\ c.index < d.index)

\* Among the candidates cands, the one where a text is met first.
FirstOccurrence(cands, text) ==
    CHOOSE c \in cands :
        /\ c.strategy.text = text
        /\ \A d \in cands : d.strategy.text = text => ~Earlier(d, c)

\* Two candidates of one audience carry the same text.
TextRepeats(audience) ==
    LET cands == Candidates(audience)
    IN  \E c, d \in cands : c # d /\ c.strategy.text = d.strategy.text

\* The engine met a text twice and the list is free of repeats.
C6_Witness ==
    /\ GeneratedForProfile
    /\ Cardinality(Selected) = 3
    /\ TextRepeats("parent")
    /\ Len(ListOf("parent")) = 5

\* C7: each list holds exactly the first two strategies of the bucket
\* (metric, audience, level of the metric's own score) of every selected
\* metric, and so at most six entries.
C7_FirstTwoOfOwnLevel ==
    GeneratedForProfile =>
        \A audience \in Audiences :
            /\ {ListOf(audience)[j] : j \in 1..Len(ListOf(audience))}
                   = {BucketOf(k, audience)[i] : k \in Selected, i \in 1..2}
            /\ Len(ListOf(audience)) <= 6

\* The three selected metrics are at three different levels and each list
\* has six entries.
C7_Witness ==
    /\ GeneratedForProfile
    /\ Cardinality(Selected) = 3
    /\ {LevelOfScore(ScoreOf(k)) : k \in Selected} = Levels
    /\ Len(ListOf("parent")) = 6
    /\ Len(ListOf("teacher")) = 6

\* C8: a text that occurs among the strategies taken for one audience has
\* exactly one entry in that audience's list, and the entry is the occurrence
\* met first in priority order, source included.
C8_FirstOccurrenceWins ==
    GeneratedForProfile =>
        \A audience \in Audiences :
            LET cands == Candidates(audience)
                list == ListOf(audience)
            IN  \A c \in cands :
                    /\ Cardinality({j \in 1..Len(list) :
                                        list[j].text = c.strategy.text}) = 1
                    /\ \E j \in 1..Len(list) :
                           list[j] = FirstOccurrence(cands, c.strategy.text).strategy

\* One text occurs in the buckets of two selected metrics under two sources.
C8_Witness ==
    /\ GeneratedForProfile
    /\ \E audience \in Audiences :
           LET cands == Candidates(audience)
           IN  \E c, d \in cands :
               /\ c.rank # d.rank
               /\ c.strategy.text = d.strategy.text
               /\ c.strategy.source # d.strategy.source

\* C9: each list is in discovery order: an entry comes before another exactly
\* when it is met earlier, by priority rank of its metric and then by its
\* place in the bucket.
C9_DiscoveryOrder ==
    GeneratedForProfile =>
        \A audience \in Audiences :
            LET cands == Candidates(audience)
                list == ListOf(audience)
            IN  \A p, q \in 1..Len(list) :
                    p < q => Earlier(FirstOccurrence(cands, list[p].text),
                                     FirstOccurrence(cands, list[q].text))

\* The priority order differs from the key order, and the list starts with
\* the lowest-scoring metric, which is not the first key.
C9_Witness ==
    /\ GeneratedForProfile
    /\ metrics = ExampleProfile
    /\ ListOf("parent")[1] = strategies["Sensory Sensitivity"].parent.highNeed[1]
    /\ ListOf("parent")[3] = strategies["Focus"].parent.highNeed[1]
    /\ ListOf("parent")[5] = strategies["Emotional Regulation"].parent.moderate[1]

NoProfile == metrics = Null \/ metrics = Undefined \/ metrics = <<>>

\* C10: for an empty object, null or undefined the engine returns two empty
\* lists and does not throw.
C10_EmptyProfileEmptyLists ==
    (Generated /\ NoProfile) => recommendations = [parent |-> <<>>, teacher |-> <<>>]

\* The engine returned for null.
C10_Witness ==
    /\ Generated
    /\ metrics = Null
    /\ recommendations = [parent |-> <<>>, teacher |-> <<>>]

\* A complete profile: the six metric names in declaration order, every score
\* an integer in 0..5.
IsCompleteProfile(m) ==
    /\ m # Null
    /\ m # Undefined
    /\ Len(m) = Len(METRIC_NAMES)
    /\ \A i \in 1..Len(m) : m[i][1] = METRIC_NAMES[i] /\ m[i][2] \in Scores

\* Metric k alone has the lowest score of the profile.
SingleLowest(m, k) ==
    \A i \in 1..Len(m) : m[i][1] # k => ObjGet(m, k) < m[i][2]

\* C11: for every complete profile with all six scores in 0..5 the engine
\* returns normally (it does not throw) and both the parent list and the
\* teacher list are non-empty.
C11_CompleteProfileNonEmptyLists ==
    (Generated /\ IsCompleteProfile(metrics)) =>
        /\ recommendations # TypeError
        /\ Len(recommendations.parent) > 0
        /\ Len(recommendations.teacher) > 0

\* The engine returned for the all-maximum profile, and for a profile where
\* one metric alone is lowest, with both lists non-empty.
C11_Witness ==
    /\ Generated
    /\ IsCompleteProfile(metrics)
    /\ \/ \A i \in 1..Len(metrics) : metrics[i][2] = MAX_METRIC_SCORE
       \/ SingleLowest(metrics, "Motor Skills")
    /\ Len(recommendations.parent) > 0
    /\ Len(recommendations.teacher) > 0


(***************************************************************************)
(* Score classifiers: claims                                               *)
(***************************************************************************)

\* What each classifier says for a band.
TierLabel(level) ==
    CASE level = "highNeed" -> "High Support"
      [] level = "moderate" -> "Moderate"
      [] level = "independent" -> "Independent"

TierIntensity(level) ==
    CASE level = "highNeed" -> "Low"
      [] level = "moderate" -> "Medium"
      [] level = "independent" -> "High"

TierColor(level) ==
    CASE level = "highNeed" -> "#ef4444"
      [] level = "moderate" -> "#f59e0b"
      [] level = "independent" -> "#10b981"

\* Every classifier has been called on the score.
AllClassified ==
    /\ scenario = "classify"
    /\ classified.supportInfo # Unset
    /\ \A f \in {"supportLevelLabel", "supportLevel", "intensityLabel",
                 "scoreColor", "csvSupportLevel", "scoreLevel"} :
           classified[f] # NotCalled

\* C12: every classifier places a score of 0..5 in the tier of its band
\* {0,1}, {2,3}, {4,5}: highNeed / High Support / Low, moderate / Moderate /
\* Medium, independent / Independent / High.
C12_SameThreeBands ==
    scenario = "classify" =>
        LET band == LevelOfScore(givenScore)
        IN  /\ classified.supportInfo # Unset =>
                  /\ classified.supportInfo.level = band
                  /\ classified.supportInfo.label = TierLabel(band)
            /\ classified.supportLevelLabel # NotCalled =>
                  classified.supportLevelLabel = TierLabel(band)
            /\ classified.supportLevel # NotCalled =>
                  classified.supportLevel = band
            /\ classified.intensityLabel # NotCalled =>
                  classified.intensityLabel = TierIntensity(band)
            /\ classified.scoreColor # NotCalled =>
                  classified.scoreColor = TierColor(band)
            /\ classified.csvSupportLevel # NotCalled =>
                  classified.csvSupportLevel = TierLabel(band)
            /\ classified.scoreLevel # NotCalled =>
                  classified.scoreLevel = band

\* Every classifier was called on 3, the upper edge of the middle band.
C12_Witness ==
    /\ AllClassified
    /\ givenScore = 3
    /\ classified.intensityLabel = "Medium"
    /\ classified.scoreLevel = "moderate"

\* How much need a level stands for.
NeedRank(level) ==
    CASE level = "highNeed" -> 2
      [] level = "moderate" -> 1
      [] level = "independent" -> 0

\* C13: getSupportLevel maps every score of 0..5 to one of highNeed, moderate,
\* independent, and no lower score maps to a level of less need.
C13_TotalAndMonotonic ==
    (scenario = "classify" /\ classified.supportLevel # NotCalled) =>
        /\ classified.supportLevel \in Levels
        /\ \A lower \in 0..givenScore :
               /\ getSupportLevel(lower) \in Levels
               /\ NeedRank(getSupportLevel(lower)) >= NeedRank(classified.supportLevel)

\* getSupportLevel was called on 2, which is above scores of another level.
C13_Witness ==
    /\ scenario = "classify"
    /\ givenScore = 2
    /\ classified.supportLevel = "moderate"
    /\ NeedRank(getSupportLevel(1)) > NeedRank(classified.supportLevel)

\* The number is an integer from 0 to 5.
IsIntegerFromZeroToFive(v) == \E n \in 0..5 : v = Number(n)

\* C14: isValidMetricScore(v) is true exactly when v is an integer from 0 to
\* 5; it is false for negative numbers, numbers above 5, non-integers, NaN and
\* the infinities.
C14_ValidIffIntegerInRange ==
    (scenario = "classify" /\ valid # Unset) =>
        (valid.value <=> IsIntegerFromZeroToFive(givenValue))

\* isValidMetricScore was called on 2.5 and said no.
C14_Witness ==
    /\ scenario = "classify"
    /\ valid # Unset
    /\ givenValue = Fraction(5, 2)
    /\ valid.value = FALSE


(***************************************************************************)
(* App modes, profile and recommendations: claims                          *)
(***************************************************************************)

\* The decode of a query string finds a short key whose value parseInt turns
\* into a valid score.
DecodeFindsKey(locationSearch) ==
    \E i \in 1..Len(KEY_METRIC_MAP) :
        LET text == ParamsGet(URLSearchParams(locationSearch), KEY_METRIC_MAP[i][1])
        IN  text # Null /\ isValidMetricScore(parseInt(text))

\* C15: initialization ends in Viewing mode exactly when the load-time decode
\* of the query string found a valid metric key, and in Editing mode
\* otherwise; after it no step enters Viewing mode.
C15_ViewingIffDecodeFoundKey ==
    [][scenario = "app" =>
          /\ (~isReady /\ isReady') => (isViewingMode' <=> DecodeFindsKey(search))
          /\ (isReady /\ ~isViewingMode) => ~isViewingMode']_vars

\* The page was loaded with ?x=1&name=A&f=6, which has no valid key, stayed in
\* Editing mode and two events were handled since.
C15_Witness ==
    /\ scenario = "app"
    /\ isReady
    /\ ~isViewingMode
    /\ search = <<"?", "x", "=", "1", "&", "n", "a", "m", "e", "=", "A", "&", "f", "=", "6">>
    /\ appParsed = NullResult
    /\ events = 2

\* Six metrics, all at the default score.
IsAllDefault(m) ==
    /\ Len(m) = 6
    /\ \A k \in MetricNameSet : ObjHas(m, k) /\ ObjGet(m, k) = 2

\* C16: Viewing mode is left only by handleSwitchToEditor, and after it the
\* app is in Editing mode with all six metrics at the default 2 and the shared
\* name cleared.
C16_OnlyExitResetsProfile ==
    [][(scenario = "app" /\ isViewingMode /\ ~isViewingMode') =>
          /\ HandleSwitchToEditor
          /\ IsAllDefault(metrics')
          /\ sharedName' = Null]_vars

\* A shared profile with a name and a Motor Skills score of 4 was viewed and
\* then left: the editor holds the defaults and no shared name.
C16_Witness ==
    /\ scenario = "app"
    /\ isReady
    /\ ~isViewingMode
    /\ appParsed # NullResult
    /\ <<"A">> = appParsed.name
    /\ ObjGet(appParsed.metrics, "Motor Skills") = 4
    /\ IsAllDefault(metrics)
    /\ sharedName = Null

\* The short key of a metric.
ShortKeyOf(k) == ObjGet(METRIC_KEY_MAP, k)

\* The score a query string gives a metric: the integer of its short key's
\* first value when that is an integer of 0..5, the default otherwise.
LoadTimeScore(locationSearch, k) ==
    LET text == ParamsGet(URLSearchParams(locationSearch), ShortKeyOf(k))
    IN  IF text # Null /\ IsValidScoreText(text) THEN IntegerOfText(text)
        ELSE DEFAULT_METRIC_SCORE

\* C17: the profile shown in Viewing mode is the load-time value, the URL's
\* score for every valid key and the default 2 for every metric the URL omits
\* or gives an invalid value, and no step taken in Viewing mode changes it.
C17_ViewingModeReadOnly ==
    [][scenario = "app" =>
          /\ (~isReady /\ isReady' /\ isViewingMode') =>
                 \A k \in MetricNameSet : ObjGet(metrics', k) = LoadTimeScore(search, k)
          /\ (isViewingMode /\ isViewingMode') => metrics' = metrics]_vars

\* C18: in every state of the app the profile has exactly the six metric
\* names as keys and every score is an integer in 0..5.
C18_ProfileComplete ==
    scenario = "app" =>
        /\ Len(metrics) = 6
        /\ KeySet(metrics) = MetricNameSet
        /\ \A i \in 1..Len(metrics) : metrics[i][2] \in 0..5

\* A shared profile with one key was loaded and left, and a slider was then
\* moved to the top of the range.
C18_Witness ==
    /\ scenario = "app"
    /\ isReady
    /\ ~isViewingMode
    /\ appParsed # NullResult
    /\ events = 2
    /\ ObjGet(metrics, "Routine Preference") = 5

\* C19: once the recomputation a profile change triggers has run, the stored
\* recommendations are generateRecommendations of the current profile; every
\* profile change triggers it, and nothing but initialization and that
\* recomputation writes the recommendations.
C19_RecommendationsFollowProfile ==
    /\ []((scenario = "app" /\ isReady /\ ~effectPending) =>
              recommendations = generateRecommendations(metrics))
    /\ [][scenario = "app" =>
              /\ metrics' # metrics => effectPending'
              /\ recommendations' # recommendations =>
                     (InitializeApp \/ RecommendationsEffect)]_vars

\* A slider was moved and the recomputation has run.
C19_Witness ==
    /\ scenario = "app"
    /\ isReady
    /\ ~isViewingMode
    /\ ~effectPending
    /\ events >= 1
    /\ ObjGet(metrics, "Sensory Sensitivity") = 0
    /\ recommendations = generateRecommendations(metrics)
    /\ recommendations # generateRecommendations(getInitialMetrics)

\* The profile after is the profile before with the given metrics set to the
\* given scores and every other metric as it was.
OnlySet(before, after, changes) ==
    /\ Len(after) = Len(before)
    /\ \A k \in MetricNameSet :
           ObjGet(after, k) = IF ObjHas(changes, k) THEN ObjGet(changes, k)
                              ELSE ObjGet(before, k)

\* C20: handleMetricChange(m, s) sets metric m to s and leaves the other five
\* metrics, the mode, the current view and the share name as they were; two
\* adjustments of different metrics made before one render both take effect.
\* (A step of one adjustment counts one event, a step of two counts two.)
C20_OneMetricAtATime ==
    [][/\ events' = events + 1 =>
              \A category \in SliderCategories, newValue \in Scores :
                  HandleChange(category, newValue) =>
                      /\ OnlySet(metrics, metrics', <<<<category, newValue>>>>)
                      /\ isViewingMode' = isViewingMode
                      /\ currentView' = currentView
                      /\ shareName' = shareName
       /\ events' = events + 2 =>
              \A first \in SliderCategories, firstScore \in BatchScores,
                 second \in SliderCategories, secondScore \in BatchScores :
                  (first # second
                       /\ HandleMetricChangeTwice(first, firstScore, second, secondScore)) =>
                      /\ OnlySet(metrics, metrics',
                                 <<<<first, firstScore>>, <<second, secondScore>>>>)
                      /\ isViewingMode' = isViewingMode
                      /\ currentView' = currentView
                      /\ shareName' = shareName]_vars

\* Two metrics were adjusted and both hold their new scores.
C20_Witness ==
    /\ scenario = "app"
    /\ isReady
    /\ ~isViewingMode
    /\ events = 2
    /\ ObjGet(metrics, "Focus") = 0
    /\ ObjGet(metrics, "Emotional Regulation") = 5
    /\ \A k \in MetricNameSet \ {"Focus", "Emotional Regulation"} : ObjGet(metrics, k) = 2



\* ---------------------------------------------------------------------------
\* The share URL of the editor

InEditing == scenario = "app" /\ isReady /\ ~isViewingMode

ShareUrlDecoded == parseUrlMetrics(LocationSearch(shareUrl))

\* C21: in every reachable Editing state, decoding the query string of the
\* share URL yields exactly the six scores of the current profile, and the URL
\* carries a name parameter, equal to the trimmed share name, exactly when the
\* share name is non-blank.
C21_ShareUrlEncodesState ==
    InEditing =>
        LET d == ShareUrlDecoded
            given == ParamsGet(URLSearchParams(LocationSearch(shareUrl)), NameKey)
        IN  /\ d # NullResult
            /\ ObjKeys(d.metrics) = METRIC_NAMES
            /\ \A i \in 1..Len(METRIC_NAMES) :
                   ObjGet(d.metrics, METRIC_NAMES[i]) = ObjGet(metrics, METRIC_NAMES[i])
            /\ IF Trim(shareName) # <<>>
               THEN Trim(shareName) = given /\ Trim(shareName) = d.name
               ELSE given = Null /\ d.name = Null

C21_Witness ==
    /\ InEditing
    /\ currentView = "share"
    /\ shareName = <<"A", " ">>
    /\ <<"A">> = ShareUrlDecoded.name
    /\ IsAllDefault(ShareUrlDecoded.metrics)


\* ---------------------------------------------------------------------------
\* The parameters generateShareUrl emits

ShareGenerated == scenario = "share" /\ shareUrl # Null

ShareUrlParams == URLSearchParams(LocationSearch(shareUrl))

\* The short keys of the six metrics in the order of the profile's entries.
RECURSIVE ShortKeysOf(_)
ShortKeysOf(m) ==
    IF m = <<>> THEN <<>> ELSE <<ShortKeyOf(Head(m)[1])>> \o ShortKeysOf(Tail(m))

\* C22: generateShareUrl adds the name parameter only when the supplied name is
\* non-blank after trimming, and then with the trimmed value; an absent, empty
\* or whitespace-only name gives a URL without a name parameter; the six metric
\* keys of a complete profile are always emitted, each with its score.
C22_NameOnlyWhenNonBlank ==
    ShareGenerated =>
        LET params == ShareUrlParams
            given == ParamsGet(params, NameKey)
        IN  /\ IF NonBlank(shareName)
               THEN /\ Trim(shareName) = given
                    /\ ObjKeys(params) = <<NameKey>> \o ShortKeysOf(metrics)
               ELSE /\ given = Null
                    /\ ObjKeys(params) = ShortKeysOf(metrics)
            /\ Len(metrics) = 6
            /\ \A i \in 1..Len(metrics) :
                   ParamsGet(params, ShortKeyOf(metrics[i][1])) =
                       NumberToString(metrics[i][2])

C22_Witness ==
    /\ ShareGenerated
    /\ <<" ", " ">> = shareName
    /\ metrics = ExampleProfile
    /\ ParamsGet(ShareUrlParams, NameKey) = Null
    /\ Len(ShareUrlParams) = 6


\* ---------------------------------------------------------------------------
\* Keyboard handling of the slider

HandledKeys == Keys \ {"Tab"}

\* The value the claim gives a handled key.
KeyTarget(key, current) ==
    CASE key \in {"ArrowUp", "ArrowRight", "PageUp"} ->
             IF current >= 5 THEN 5 ELSE current + 1
      [] key \in {"ArrowDown", "ArrowLeft", "PageDown"} ->
             IF current <= 0 THEN 0 ELSE current - 1
      [] key = "Home" -> 0
      [] key = "End" -> 5

\* C23: for every current value in 0..5 and every handled key the slider's new
\* value is in 0..5: ArrowUp, ArrowRight and PageUp add one up to 5, ArrowDown,
\* ArrowLeft and PageDown take one off down to 0, Home gives 0 and End gives 5;
\* when the value would not change, onChange is not called: the profile stays
\* and no render or effect is scheduled.
C23_KeyboardKeepsRange ==
    [][(events' = events + 1 /\ ShowsEditView) =>
          \A category \in SliderCategories, key \in HandledKeys :
              HandleKeyDown(category, key) =>
                  LET current == ObjGet(metrics, category)
                      after == ObjGet(metrics', category)
                  IN  /\ current \in 0..5
                      /\ after \in 0..5
                      /\ after = KeyTarget(key, current)
                      /\ \A other \in SliderCategories \ {category} :
                             ObjGet(metrics', other) = ObjGet(metrics, other)
                      /\ after = current =>
                             UNCHANGED <<metrics, shareUrl, effectPending,
                                         recommendations>>
                      /\ after # current => effectPending']_vars

\* A key pressed at the end of the range: the value and the rest of the state
\* stay, with no effect outstanding.
C23_Witness ==
    /\ ShowsEditView
    /\ events = 2
    /\ ~effectPending
    /\ ObjGet(metrics, "Focus") = 5
    /\ recommendations = generateRecommendations(metrics)



\* ---------------------------------------------------------------------------
\* The shared name on display

IsAngleBracket(c) == c \in {"<", ">"}

\* text is the first 50 characters of name without its angle brackets: each
\* character that is kept stands at its position less the brackets before it.
IsSanitized(text, name) ==
    LET first == IF Len(name) < 50 THEN Len(name) ELSE 50
        dropped(i) == Cardinality({j \in 1..i : IsAngleBracket(name[j])})
    IN  /\ Len(text) = first - dropped(first)
        /\ Len(text) <= 50
        /\ \A i \in 1..Len(text) : ~IsAngleBracket(text[i])
        /\ \A i \in 1..first :
               ~IsAngleBracket(name[i]) => text[i - dropped(i)] = name[i]

\* The h1 of a named profile: the displayed name, then "'s" and the title.
HeaderNameOf(header) == SubSeq(header, 1, Len(header) - Len(NamedProfileTitle))
HeaderTitleOf(header) ==
    SubSeq(header, Len(header) - Len(NamedProfileTitle) + 1, Len(header))

\* The name has arrived from a query string and its header is rendered.
SharedNameShown ==
    /\ scenario = "display"
    /\ search # Null
    /\ shown.header # NotCalled

\* C24: the codec returns the decoded name as the query string carries it, and
\* both places that display a shared name, the header of ViewingMode and the
\* banner expression of the edit view, give the first 50 characters of the
\* name with every '<' and '>' removed: at most 50 characters and no angle
\* bracket.
C24_DisplayedNameSanitized ==
    /\ [][(scenario = "display" /\ appParsed = Unset /\ appParsed' # Unset) =>
              /\ appParsed' # NullResult
              /\ appParsed'.name = ParamsGet(URLSearchParams(search), NameKey)
              /\ sharedName' = IF Truthy(appParsed'.name) THEN appParsed'.name
                               ELSE Null]_vars
    /\ [](scenario = "display" =>
              /\ SharedNameShown => shown.profileName = sharedName
              /\ (Truthy(shown.profileName) /\ shown.header # NotCalled) =>
                     /\ Len(shown.header) >= Len(NamedProfileTitle)
                     /\ HeaderTitleOf(shown.header) = NamedProfileTitle
                     /\ IsSanitized(HeaderNameOf(shown.header), shown.profileName)
              /\ (Truthy(shown.profileName) /\ shown.banner # NotCalled) =>
                     IsSanitized(shown.banner, shown.profileName))

\* A name of 52 characters with a bracket before the 50th character and one
\* after it: the header shows 49 of them before "'s" and the title.
C24_Witness ==
    /\ scenario = "display"
    /\ <<"<", "a">> \o Padding(48) \o <<">", "c">> = shown.profileName
    /\ shown.header # NotCalled
    /\ Len(HeaderNameOf(shown.header)) = 49
    /\ shown.banner # NotCalled


\* ---------------------------------------------------------------------------
\* The CSV report

ReportGenerated == scenario = "report" /\ csv # Unset

SectionMarkers ==
    <<"=== METRICS ===", "=== SUPPORT STRATEGIES ===",
      "=== RESOURCES FOR PARENTS & CAREGIVERS ===", "=== RESOURCES FOR EDUCATORS ===">>

\* The rows of the report that are the given line.
RowsThatAre(line) == {i \in 1..Len(csv) : Len(csv[i]) = 1 /\ csv[i][1] = [bare |-> line]}

MarkerRow(k) == CHOOSE i \in RowsThatAre(SectionMarkers[k]) : TRUE

\* The rows of a section after its marker and its header row (the strategies
\* section has none), up to the blank row before the next marker.
SectionRows(k) ==
    LET first == MarkerRow(k) + (IF k = 2 THEN 1 ELSE 2)
        last == IF k = 4 THEN Len(csv) ELSE MarkerRow(k + 1) - 2
    IN  first..last

\* The label of the report for a score: 0-1, 2-3, 4-5.
ReportLevel(score) ==
    CASE score \in {0, 1} -> "High Support"
      [] score \in {2, 3} -> "Moderate"
      [] score \in {4, 5} -> "Independent"

\* C25: generateCSVContent always emits the title line and the four section
\* markers METRICS, SUPPORT STRATEGIES, RESOURCES FOR PARENTS & CAREGIVERS and
\* RESOURCES FOR EDUCATORS, each once and in that order, also when
\* recommendations is null or a resource list is empty; the metrics section
\* has one row for each metric of the profile, six rows, with the profile's
\* score and the support-level label of that score.
C25_CsvSectionsAndMetricRows ==
    ReportGenerated =>
        /\ csv[1] = TextRow("My Spectrum Report")
        /\ \A k \in 1..4 : Cardinality(RowsThatAre(SectionMarkers[k])) = 1
        /\ 1 < MarkerRow(1)
        /\ \A k \in 1..3 : MarkerRow(k) < MarkerRow(k + 1)
        /\ Cardinality(SectionRows(1)) = 6
        /\ Len(metrics) = 6
        /\ \A i \in SectionRows(1) : Len(csv[i]) = 4
        /\ \A k \in MetricNameSet :
               /\ Cardinality({i \in SectionRows(1) : csv[i][1] = Quoted(k)}) = 1
               /\ \A i \in SectionRows(1) :
                      csv[i][1] = Quoted(k) =>
                          /\ csv[i][2] = Bare(ObjGet(metrics, k))
                          /\ csv[i][3] = Quoted(ReportLevel(ObjGet(metrics, k)))

\* A report made while recommendations is null, with no resources: the four
\* markers and the six rows of a profile that has all three levels.
C25_Witness ==
    /\ ReportGenerated
    /\ csvInput.recommendations = NullResult
    /\ csvInput.settingsData = AllSettings
    /\ metrics = ExampleProfile
    /\ csvInput.parentResources = <<>>
    /\ csvInput.teacherResources = <<>>
    /\ SectionRows(2) = {}
    /\ csv[MarkerRow(1) + 2] = <<Quoted("Focus"), Bare(1), Quoted("High Support"),
                                 Quoted(escapeCSV(<<"Focus", 1>>))>>

\* ---------------------------------------------------------------------------
\* The combined strategy list

CombinedStrategies(recs) == recs.parent \o recs.teacher

FirstIndexOfText(recs, text) ==
    CHOOSE i \in 1..Len(CombinedStrategies(recs)) :
        /\ CombinedStrategies(recs)[i].text = text
        /\ \A j \in 1..(i - 1) : CombinedStrategies(recs)[j].text # text

\* texts holds each distinct text of the combined list once, in the order of
\* the first occurrences, parent entries first.
IsFirstOccurrenceList(texts, recs) ==
    /\ \A i, j \in 1..Len(texts) : i # j => texts[i] # texts[j]
    /\ {texts[i] : i \in 1..Len(texts)} =
           {CombinedStrategies(recs)[i].text : i \in 1..Len(CombinedStrategies(recs))}
    /\ \A i, j \in 1..Len(texts) :
           i < j => FirstIndexOfText(recs, texts[i]) < FirstIndexOfText(recs, texts[j])
    /\ \A i, j \in 1..Len(texts) :
           (/\ \E p \in 1..Len(recs.parent) : recs.parent[p].text = texts[i]
            /\ \A p \in 1..Len(recs.parent) : recs.parent[p].text # texts[j]) => i < j

CsvStrategyTexts ==
    LET first == MarkerRow(2)
    IN  [n \in 1..Cardinality(SectionRows(2)) |-> csv[first + n][2].quoted.doubled]

\* C26: where parent and teacher strategies are combined, in the SUPPORT
\* STRATEGIES section of the CSV and in the strategy list of ViewingMode, each
\* distinct strategy text appears exactly once, in first-occurrence order with
\* parent entries before teacher entries, and the CSV rows are numbered
\* consecutively from 1.
C26_CombinedStrategiesOnce ==
    /\ (ReportGenerated /\ csvInput.recommendations # NullResult) =>
           /\ \A i \in SectionRows(2) : Len(csv[i]) = 2
           /\ \A n \in 1..Cardinality(SectionRows(2)) :
                  csv[MarkerRow(2) + n][1] = Bare(n)
           /\ IsFirstOccurrenceList(CsvStrategyTexts, csvInput.recommendations)
    /\ (scenario = "report" /\ shown # Unset) =>
           /\ recommendations = generateRecommendations(metrics)
           /\ IsFirstOccurrenceList([n \in 1..Len(shown.allStrategies) |->
                                        shown.allStrategies[n].text], recommendations)
           /\ \A n \in 1..Len(shown.allStrategies) :
                  shown.allStrategies[n] =
                      CombinedStrategies(recommendations)[
                          FirstIndexOfText(recommendations, shown.allStrategies[n].text)]

\* The report of the lists that end with the same text, six entries in five
\* rows, next to the list of ViewingMode for a profile with all three levels.
C26_Witness ==
    /\ ReportGenerated
    /\ csvInput.recommendations = mockRecommendations
    /\ Len(CombinedStrategies(csvInput.recommendations)) = 6
    /\ Cardinality(SectionRows(2)) = 5
    /\ csv[MarkerRow(2) + 5] = <<Bare(5), Quoted(escapeCSV("Teacher strategy 2"))>>
    /\ metrics = ExampleProfile
    /\ shown # Unset
    /\ Len(shown.allStrategies) = Len(CombinedStrategies(recommendations))
    /\ Len(shown.allStrategies) > 0


\* ---------------------------------------------------------------------------
\* The installation key

\* C27 as stated: under any interleaving of concurrent saveMetricEncrypted
\* calls at most one installation key is ever generated and stored, every
\* stored log entry is encrypted under the key that remains stored, and
\* getAllLogs decrypts every saved entry.
C27_OneKeyPerInstallation ==
    scenario = "db" =>
        /\ keysGenerated <= 1
        /\ \A i \in 1..Len(logs) : logs[i].payload.key = installKey
        /\ \A r \in 1..Len(reads) :
               reads[r].pc = "done" =>
                   Len(reads[r].result) = Len(reads[r].allRecords)


\* ---------------------------------------------------------------------------
\* The two decoders

BothDecoded == scenario \in {"share", "load"} /\ parsed # Unset /\ appParsed # Unset

\* C28: for every query string, parseUrlMetrics of App.tsx, which validates
\* with isValidMetricScore, and parseUrlMetrics of lib/sharing.ts, which
\* validates with 0 <= score <= 5, return the same result: both null, or the
\* same metrics and the same name.
C28_DecodersAgree ==
    BothDecoded =>
        /\ (parsed = NullResult) <=> (appParsed = NullResult)
        /\ parsed # NullResult =>
               /\ parsed.metrics = appParsed.metrics
               /\ parsed.name = appParsed.name

\* A query string with a score both accept and a score both reject.
C28_Witness ==
    /\ BothDecoded
    /\ scenario = "load"
    /\ appParsed # NullResult
    /\ Len(appParsed.metrics) = 1
    /\ parsed = appParsed
    /\ \E i \in 1..Len(KEY_METRIC_MAP) : <<"6">> = ValueOfKey(KEY_METRIC_MAP[i][1])


\* ---------------------------------------------------------------------------
\* What the recommendations depend on

PlaceIn(m, k) == CHOOSE i \in 1..Len(m) : m[i][1] = k

\* In profile m metric j has priority over metric k.
HasPriorityIn(m, j, k) ==
    \/ ObjGet(m, j) < ObjGet(m, k)
    \/ ObjGet(m, j) = ObjGet(m, k) /\ PlaceIn(m, j) < PlaceIn(m, k)

RankIn(m, k) == Cardinality({j \in KeySet(m) : HasPriorityIn(m, j, k)})

\* The same three metrics are selected in the same order.
SameSelectionOrder(m1, m2) ==
    \A k \in KeySet(m1) :
        (RankIn(m1, k) < 3 \/ RankIn(m2, k) < 3) => RankIn(m1, k) = RankIn(m2, k)

\* C29: the two returned lists do not depend on the metrics outside the
\* selected three: with the score of a metric that is not selected raised to
\* any value up to 5 the engine returns the same two lists, and so it does
\* with the score of a selected metric changed within its support band when
\* the selection order stays.
C29_OnlySelectedBandsMatter ==
    (GeneratedForProfile /\ metrics # <<>>) =>
        /\ \A k \in KeySet(metrics) \ Selected :
               \A raised \in ScoreOf(k)..5 :
                   generateRecommendations(ObjSet(metrics, k, raised)) = recommendations
        /\ \A k \in Selected :
               \A other \in Scores :
                   (/\ LevelOfScore(other) = LevelOfScore(ScoreOf(k))
                    /\ SameSelectionOrder(metrics, ObjSet(metrics, k, other))) =>
                       generateRecommendations(ObjSet(metrics, k, other)) = recommendations

\* A profile whose fourth metric sits in the lowest band with room above it,
\* and whose first selected metric can move inside its band.
C29_Witness ==
    /\ Generated
    /\ metrics = Profile(<<0, 1, 1, 1, 3, 5>>)
    /\ Selected = {"Focus", "Social Interaction", "Sensory Sensitivity"}
    /\ generateRecommendations(ObjSet(metrics, "Motor Skills", 5)) = recommendations
    /\ generateRecommendations(ObjSet(metrics, "Focus", 1)) = recommendations
    /\ generateRecommendations(ObjSet(metrics, "Focus", 2)) # recommendations


\* ---------------------------------------------------------------------------
\* The shared banner of the edit view

\* {sharedName && <div className="shared-banner">...} in the edit view.
ShowsSharedBanner == ShowsEditView /\ Truthy(sharedName)

\* handleDismissSharedName, the button of the banner.  No step of the app is
\* this one: by C30 the banner is in no reachable state.
HandleDismissSharedName ==
    /\ ShowsSharedBanner
    /\ events < MaxEvents
    /\ sharedName' = Null
    /\ events' = events + 1
    /\ OtherUnchanged
    /\ UNCHANGED <<shareName, shareUrl, isViewingMode, currentView, legalPage,
                   showPlaintext, viewing>>

\* C30: in every reachable state where the app is ready and in Editing mode
\* the shared name is null, so the banner of the edit view is never shown; a
\* shared name is set only in the step that enters Viewing mode, and the step
\* that leaves Viewing mode clears it.
C30_NoSharedNameInEditing ==
    /\ [](InEditing => (sharedName = Null /\ ~ShowsSharedBanner))
    /\ [][scenario = "app" =>
              /\ (Truthy(sharedName') /\ ~Truthy(sharedName)) =>
                     (~isViewingMode /\ isViewingMode')
              /\ (isViewingMode /\ ~isViewingMode') => sharedName' = Null
              /\ ~ENABLED HandleDismissSharedName]_vars

\* The editor after a shared profile with a name was viewed and left.
C30_Witness ==
    /\ ShowsEditView
    /\ events = 1
    /\ appParsed # NullResult
    /\ <<"A", " ", "B">> = appParsed.name
    /\ sharedName = Null
    /\ effectPending

====
